---- MODULE Spec2Model ----
(***************************************************************************)
(* Model of the security / validation core of the Streamlit data           *)
(* dashboard: the API rate limiter (SecurityConfig.validate_api_usage),    *)
(* the upload validator (SecureFileHandler._validate_file), the strict     *)
(* upload-time content scan (SecureFileHandler._security_scan), the        *)
(* permissive scan (SecurityConfig.validate_data_content), the input       *)
(* sanitizer (SecurityConfig.sanitize_input) and the profiler and cleaner  *)
(* of utils/data_processor.py (DataProcessor).                             *)
(***************************************************************************)
EXTENDS Integers, Sequences, FiniteSets, TLC

VARIABLES
    now,              \* time.time(), in whole seconds; it never runs backwards
    api_call_tracker, \* SecurityConfig.api_call_tracker: user_id -> reference of a dict
    heap,             \* the dict objects: reference -> (minute -> call count)
    hist,             \* per identity: its calls in the bucket of its latest call, and
                      \* what that call read and returned
    pc,               \* per thread: position inside validate_api_usage
    frame,            \* per thread: the locals of validate_api_usage
    upload,           \* the uploaded file's metadata (name, size, type)
    verdict,          \* what _validate_file returned for upload
    table,            \* the parsed DataFrame
    scan,             \* what _security_scan returned for table
    raises,           \* the column of table and the statements of a scan that raise on it
    validation_result, \* what validate_data_content returned for table
    input_text,       \* the argument of sanitize_input
    sanitized,        \* what sanitize_input returned for input_text
    quality_metrics,  \* what generate_quality_report returned for table
    profiles,         \* what generate_column_profiles returned for table
    cleaning_options, \* the switches given to clean_data
    frames,           \* the DataFrame objects: reference -> table; the caller's is the first
    cleaned_df,       \* the reference clean_data returned
    uploaded,         \* the file given to validate_and_process: metadata, workbook, faults
    process_result,   \* what validate_and_process returned for uploaded_file
    session_state,    \* st.session_state: data and processed_data
    admissions        \* per instant of the last 60 seconds: the calls admitted at it

vars ==
    <<now, api_call_tracker, heap, hist, pc, frame, upload, verdict, table, scan,
      raises, validation_result, input_text, sanitized, quality_metrics, profiles,
      cleaning_options, frames, cleaned_df, uploaded, process_result,
      session_state, admissions>>

rateVars == <<now, api_call_tracker, heap, hist, pc, frame>>
fileVars == <<upload, verdict>>
scanVars == <<table, scan>>
contentVars == <<raises, validation_result>>
\* the state of the data functions, which the rate limiter and the upload validator
\* leave alone
sanitizeVars == <<input_text, sanitized>>
profileVars == <<quality_metrics, profiles>>
cleanVars == <<cleaning_options, frames, cleaned_df>>
sessionVars == <<uploaded, process_result, session_state>>
windowVars == <<admissions>>
dataVars == <<scanVars, contentVars, sanitizeVars, profileVars, cleanVars, sessionVars, windowVars>>

Min(a, b) == IF a <= b THEN a ELSE b

(***************************************************************************)
(* Text. A Python str is a sequence of one-character strings.              *)
(***************************************************************************)

LowerLetters == <<"a","b","c","d","e","f","g","h","i","j","k","l","m",
                  "n","o","p","q","r","s","t","u","v","w","x","y","z">>
UpperLetters == <<"A","B","C","D","E","F","G","H","I","J","K","L","M",
                  "N","O","P","Q","R","S","T","U","V","W","X","Y","Z">>
Digits == {"0","1","2","3","4","5","6","7","8","9"}
Range(seq) == {seq[i] : i \in DOMAIN seq}
Letters == Range(LowerLetters) \cup Range(UpperLetters)
Whitespace == {" ", "\t", "\n", "\r", "\f"}
\* the characters of \w
WordChars == Letters \cup Digits \cup {"_"}

\* str.lower() of one character
LowerChar(c) ==
    IF c \in Range(UpperLetters)
    THEN LowerLetters[CHOOSE i \in DOMAIN UpperLetters : UpperLetters[i] = c]
    ELSE c

\* str.upper() of one character
UpperChar(c) ==
    IF c \in Range(LowerLetters)
    THEN UpperLetters[CHOOSE i \in DOMAIN LowerLetters : LowerLetters[i] = c]
    ELSE c

\* str.lower()
Lower(str) == [i \in DOMAIN str |-> LowerChar(str[i])]

\* sub in str
Contains(str, sub) ==
    \E i \in 1..(Len(str) - Len(sub) + 1) : SubSeq(str, i, i + Len(sub) - 1) = sub

\* str.split('.')[-1]: what follows the last '.', the whole string when it has none
LastDotPart(str) ==
    LET dots == {i \in DOMAIN str : str[i] = "."}
    IN  IF dots = {} THEN str
        ELSE SubSeq(str, (CHOOSE i \in dots : \A j \in dots : j <= i) + 1, Len(str))

(***************************************************************************)
(* Regular expressions (Python re). A pattern is the sequence of its       *)
(* items; an item is a character set (kind "set"), a negated set ("nset"), *)
(* '.' ("any") or the word boundary \b ("bound"), with its quantifier q:   *)
(* "1", "*", "+", "?" or the lazy "*?" (which Search takes as "*": it asks *)
(* only whether a match exists).                                           *)
(***************************************************************************)

Lit(c) == [kind |-> "set", chars |-> {c}, q |-> "1"]
Set(cs, q) == [kind |-> "set", chars |-> cs, q |-> q]
NotSet(cs, q) == [kind |-> "nset", chars |-> cs, q |-> q]
AnyChar(q) == [kind |-> "any", chars |-> {}, q |-> q]
Lits(str) == [i \in DOMAIN str |-> Lit(str[i])]
WordBoundary == [kind |-> "bound", chars |-> {}, q |-> "1"]
\* item{n}
Times(item, n) == [i \in 1..n |-> item]

\* \b at position j: of the characters before and after it, exactly one is a \w.
AtWordBoundary(text, j) ==
    (j > 1 /\ text[j - 1] \in WordChars) # (j <= Len(text) /\ text[j] \in WordChars)

\* Is c in the set cs; with re.IGNORECASE, is a case variant of c in it.
InSet(c, cs, icase) ==
    \/ c \in cs
    \/ icase /\ (LowerChar(c) \in cs \/ UpperChar(c) \in cs)

\* Does the item accept the character c.
Accepts(item, c, icase) ==
    CASE item.kind = "set" -> InSet(c, item.chars, icase)
      [] item.kind = "nset" -> ~InSet(c, item.chars, icase)
      [] item.kind = "any" -> c # "\n"

\* Do the items i.. of the pattern match text from position j on; dollar: the pattern
\* ends in '$', which matches at the end and before a final newline.
RECURSIVE MatchFrom(_, _, _, _, _, _)
MatchFrom(items, i, text, j, icase, dollar) ==
    IF i > Len(items)
    THEN \/ ~dollar
         \/ j = Len(text) + 1
         \/ j = Len(text) /\ text[j] = "\n"
    ELSE LET item == items[i]
             ok == j <= Len(text) /\ Accepts(item, text[j], icase)
         IN  CASE item.kind = "bound" ->
                    AtWordBoundary(text, j) /\ MatchFrom(items, i + 1, text, j, icase, dollar)
               [] item.q = "1" -> ok /\ MatchFrom(items, i + 1, text, j + 1, icase, dollar)
               [] item.q \in {"*", "*?"} ->
                    \/ ok /\ MatchFrom(items, i, text, j + 1, icase, dollar)
                    \/ MatchFrom(items, i + 1, text, j, icase, dollar)
               [] item.q = "+" -> ok /\ \/ MatchFrom(items, i, text, j + 1, icase, dollar)
                                        \/ MatchFrom(items, i + 1, text, j + 1, icase, dollar)
               [] item.q = "?" -> \/ ok /\ MatchFrom(items, i + 1, text, j + 1, icase, dollar)
                                  \/ MatchFrom(items, i + 1, text, j, icase, dollar)

\* re.search(pattern, text) is not None
Search(items, text, icase) ==
    \E j \in 1..(Len(text) + 1) : MatchFrom(items, 1, text, j, icase, FALSE)

\* Where the match of the items i.. that re tries first from position j ends (the
\* position after its last character), 0 when there is none: a greedy item first takes
\* one more character, a lazy one first leaves. The items here have q "1", "*" or "*?".
RECURSIVE MatchEnd(_, _, _, _, _)
MatchEnd(items, i, text, j, icase) ==
    IF i > Len(items) THEN j
    ELSE LET item == items[i]
             ok == j <= Len(text) /\ Accepts(item, text[j], icase)
             stay == IF ok THEN MatchEnd(items, i, text, j + 1, icase) ELSE 0
             leave == MatchEnd(items, i + 1, text, j, icase)
         IN  CASE item.q = "1" ->
                    IF ok THEN MatchEnd(items, i + 1, text, j + 1, icase) ELSE 0
               [] item.q = "*" -> IF stay # 0 THEN stay ELSE leave
               [] item.q = "*?" -> IF leave # 0 THEN leave ELSE stay

\* re.sub(pattern, '', text) from position j on: the leftmost match is dropped and the
\* search goes on behind it. No pattern here matches the empty string.
RECURSIVE Sub(_, _, _, _)
Sub(items, text, j, icase) ==
    IF j > Len(text) THEN <<>>
    ELSE LET end == MatchEnd(items, 1, text, j, icase)
         IN  IF end # 0 THEN Sub(items, text, end, icase)
             ELSE <<text[j]>> \o Sub(items, text, j + 1, icase)

(***************************************************************************)
(* Upload validation: utils/__init__.py, SecureFileHandler._validate_file  *)
(***************************************************************************)

MAX_FILE_SIZE == 50 * 1024 * 1024
ALLOWED_EXTENSIONS == {<<".", "x", "l", "s", "x">>}
XlsxMime == "application/vnd.openxmlformats-officedocument.spreadsheetml.sheet"
ALLOWED_MIME_TYPES == {XlsxMime}

MsgSize == "File size exceeds limit"
MsgExtension == "File type not allowed. Only .xlsx files are supported."
MsgMime == "Invalid MIME type"
MsgFilename ==
    "Invalid filename. Please use only alphanumeric characters, spaces, hyphens, and underscores."
MsgEmpty == "File appears to be empty"
MsgOk == "File validation successful"

\* safe_pattern = re.compile(r'^[a-zA-Z0-9._\\-\\s()]+$'): in the raw string each \\ is
\* an escaped backslash, so the set holds the letters, the digits, '.', '_', the
\* range from backslash to backslash, 's', '(' and ')'.
safe_pattern ==
    <<Set(Letters \cup Digits \cup {".", "_", "\\", "s", "(", ")"}, "+")>>

\* safe_pattern.match(filename): anchored at the start, '$' at the end
SafePatternMatch(filename) == MatchFrom(safe_pattern, 1, filename, 1, FALSE, TRUE)

\* '..' in filename or '/' in filename or '\\\\' in filename: the last literal, not a
\* raw string, is two backslash characters.
TraversalAttempt(filename) ==
    \/ Contains(filename, <<".", ".">>)
    \/ Contains(filename, <<"/">>)
    \/ Contains(filename, <<"\\", "\\">>)

_is_safe_filename(filename) ==
    IF TraversalAttempt(filename) THEN FALSE ELSE SafePatternMatch(filename)

\* file_extension = '.' + uploaded_file.name.split('.')[-1].lower()
FileExtension(name) == <<".">> \o Lower(LastDotPart(name))

\* A plausible slip: >= in place of >.
TooLargeInclusive(size) == size >= MAX_FILE_SIZE

\* if uploaded_file.size > self.MAX_FILE_SIZE
TooLarge(size) == size > MAX_FILE_SIZE

\* A plausible slip: the empty-file rule moved to the front.
ValidateFileEmptyFirst(uploaded_file) ==
    IF uploaded_file.size = 0
    THEN [valid |-> FALSE, message |-> MsgEmpty]
    ELSE IF TooLarge(uploaded_file.size)
    THEN [valid |-> FALSE, message |-> MsgSize]
    ELSE IF FileExtension(uploaded_file.name) \notin ALLOWED_EXTENSIONS
    THEN [valid |-> FALSE, message |-> MsgExtension]
    ELSE IF uploaded_file.type \notin ALLOWED_MIME_TYPES
    THEN [valid |-> FALSE, message |-> MsgMime]
    ELSE IF ~_is_safe_filename(uploaded_file.name)
    THEN [valid |-> FALSE, message |-> MsgFilename]
    ELSE [valid |-> TRUE, message |-> MsgOk]

_validate_file(uploaded_file) ==
    IF TooLarge(uploaded_file.size)
    THEN [valid |-> FALSE, message |-> MsgSize]
    ELSE IF FileExtension(uploaded_file.name) \notin ALLOWED_EXTENSIONS
    THEN [valid |-> FALSE, message |-> MsgExtension]
    ELSE IF uploaded_file.type \notin ALLOWED_MIME_TYPES
    THEN [valid |-> FALSE, message |-> MsgMime]
    ELSE IF ~_is_safe_filename(uploaded_file.name)
    THEN [valid |-> FALSE, message |-> MsgFilename]
    ELSE IF uploaded_file.size = 0
    THEN [valid |-> FALSE, message |-> MsgEmpty]
    ELSE [valid |-> TRUE, message |-> MsgOk]

\* Bound of the model: the longest generated filename stem.
MaxStem == 2

RECURSIVE SeqsUpTo(_, _)
SeqsUpTo(alphabet, n) ==
    IF n = 0 THEN {<<>>}
    ELSE LET shorter == SeqsUpTo(alphabet, n - 1)
         IN  shorter \cup {Append(w, c) : w \in shorter, c \in alphabet}

NameChars == {"a", "S", "7", ".", "/", "\\", "-", " ", "_"}
NameEndings == {<<>>, <<".", "x", "l", "s", "x">>, <<".", "X", "L", "S", "X">>, <<".", "c", "s", "v">>, <<"x", "l", "s", "x">>}
ExampleNames == {<<"a", "\\", "b", ".", "x", "l", "s", "x">>,
                 <<"m", "y", " ", "r", "e", "p", "o", "r", "t", "-", "2", " ", "(", "f", "i", "n", "a", "l", ")", ".", "x", "l", "s", "x">>,
                 <<"r", "e", "p", "o", "r", "t", " ", "(", "v", "2", ")", ".", "x", "l", "s", "x">>}
FileNames == {stem \o ending : stem \in SeqsUpTo(NameChars, MaxStem), ending \in NameEndings}
                 \cup ExampleNames
FileSizes == {0, 1, MAX_FILE_SIZE - 1, MAX_FILE_SIZE, MAX_FILE_SIZE + 1}
FileTypes == {XlsxMime, "text/csv"}
Uploads == [name : FileNames, size : FileSizes, type : FileTypes]

NoUpload == [name |-> <<>>, size |-> 0, type |-> ""]
NoVerdict == [valid |-> FALSE, message |-> "none"]

\* validation_result = self._validate_file(uploaded_file)
ValidateFile ==
    /\ verdict = NoVerdict
    /\ verdict' = _validate_file(upload)
    /\ UNCHANGED <<upload, rateVars, dataVars>>


(***************************************************************************)
(* Rate limiter: utils/security.py, SecurityConfig.validate_api_usage      *)
(***************************************************************************)

MAX_API_CALLS_PER_MINUTE == 10
SecondsPerMinute == 60

\* Bounds of the model.
MaxMinute == 2          \* the clock runs through the minutes 0..MaxMinute
ExtraCalls == 2         \* calls an identity may make in a bucket beyond the limit

Users == {"u1", "u2"}
Threads == {"t1", "t2"}
SampleSeconds == {0, 59}   \* the seconds of a minute at which the clock is observed
Instants == {SecondsPerMinute * m + s : m \in 0..MaxMinute, s \in SampleSeconds}

EmptyDict == [k \in {} |-> 0]

\* int(current_time // 60)
MinuteOf(current_time) == current_time \div SecondsPerMinute

\* A plausible slip: buckets are kept one minute longer.
OldMinutesLate(user_tracker, current_minute) ==
    {minute \in DOMAIN user_tracker : minute < current_minute - 2}

\* old_minutes = [minute for minute in user_tracker.keys() if minute < current_minute - 1]
OldMinutes(user_tracker, current_minute) ==
    {minute \in DOMAIN user_tracker : minute < current_minute - 1}

\* for old_minute in old_minutes: del user_tracker[old_minute]
Pruned(user_tracker, current_minute) ==
    [minute \in (DOMAIN user_tracker) \ OldMinutes(user_tracker, current_minute)
        |-> user_tracker[minute]]

\* A plausible slip: the count is read without regard to the bucket key.
CurrentCallsAnyBucket(user_tracker, current_minute) ==
    IF DOMAIN user_tracker = {} THEN 0
    ELSE user_tracker[CHOOSE k \in DOMAIN user_tracker :
                          \A j \in DOMAIN user_tracker : j <= k]

\* current_calls = user_tracker.get(current_minute, 0)
CurrentCalls(user_tracker, current_minute) ==
    IF current_minute \in DOMAIN user_tracker THEN user_tracker[current_minute] ELSE 0

\* A plausible slip: > in place of >=.
RateExceededOffByOne(current_calls) == current_calls > MAX_API_CALLS_PER_MINUTE

\* if current_calls >= self.limits.MAX_API_CALLS_PER_MINUTE
RateExceeded(current_calls) == current_calls >= MAX_API_CALLS_PER_MINUTE

\* 'retry_after': 60 - (current_time % 60)
RetryAfter(current_time) == SecondsPerMinute - (current_time % SecondsPerMinute)

Denied(current_time) ==
    [allowed |-> FALSE, remaining_calls |-> -1, retry_after |-> RetryAfter(current_time)]

\* A plausible slip: the remaining calls are taken from the count before the increment.
AdmittedBeforeIncrement(current_calls) ==
    [allowed |-> TRUE,
     remaining_calls |-> MAX_API_CALLS_PER_MINUTE - current_calls,
     retry_after |-> -1]

\* 'remaining_calls': MAX - (current_calls + 1)
Admitted(current_calls) ==
    [allowed |-> TRUE,
     remaining_calls |-> MAX_API_CALLS_PER_MINUTE - (current_calls + 1),
     retry_after |-> -1]

\* user_tracker[current_minute] = current_calls + 1
Stored(user_tracker, current_minute, current_calls) ==
    [minute \in (DOMAIN user_tracker) \cup {current_minute} |->
        IF minute = current_minute THEN current_calls + 1 ELSE user_tracker[minute]]

\* The return value of the call, from the count it read.
ResultOf(current_time, current_calls) ==
    IF RateExceeded(current_calls) THEN Denied(current_time) ELSE Admitted(current_calls)

\* A plausible slip: the counter is incremented before the limit is looked at.
TrackerAfterCountingDenials(user_tracker, current_minute, current_calls) ==
    Stored(user_tracker, current_minute, current_calls)

\* The dict the call leaves behind, from the (pruned) dict and the count it read.
TrackerAfter(user_tracker, current_minute, current_calls) ==
    IF RateExceeded(current_calls) THEN user_tracker
    ELSE Stored(user_tracker, current_minute, current_calls)

NoResult == [allowed |-> FALSE, remaining_calls |-> -1, retry_after |-> -1]

NoHist == [minute |-> -1, calls |-> 0, admits |-> 0, epoch |-> 0,
           read |-> -1, result |-> NoResult]

\* History of an identity after a call of bucket m that read current_calls and
\* returned res. epoch: 0 no call yet, 1 the identity's first
\* bucket, 2 a later one.
HistAfter(h, m, current_calls, res) ==
    [minute |-> m,
     calls |-> IF h.minute = m THEN h.calls + 1 ELSE 1,
     admits |-> (IF h.minute = m THEN h.admits ELSE 0) + (IF res.allowed THEN 1 ELSE 0),
     epoch |-> IF h.minute = m THEN h.epoch ELSE Min(h.epoch + 1, 2),
     read |-> current_calls,
     result |-> res]

NoFrame == [user_id |-> "none", current_time |-> -1, current_minute |-> -1,
            user_tracker |-> 0, current_calls |-> -1]

\* A plausible slip: every identity is given the first dict object.
SharedRef == Min(1, Len(heap) + 1)

\* Fresh reference for a new dict object.
NewRef == Len(heap) + 1

\* May the identity make another call in bucket m (bound of the model)?
MayCall(u, m) ==
    hist[u].minute = m => hist[u].calls < MAX_API_CALLS_PER_MINUTE + ExtraCalls

\* validate_api_usage(user_id), run from entry to return without interruption.
ApiUsage(u) ==
    LET current_time == now
        current_minute == MinuteOf(current_time)
        isNew == u \notin DOMAIN api_call_tracker
        ref == IF isNew THEN NewRef ELSE api_call_tracker[u]
        dict0 == IF isNew THEN EmptyDict ELSE heap[ref]
        user_tracker == Pruned(dict0, current_minute)
        current_calls == CurrentCalls(user_tracker, current_minute)
        res == ResultOf(current_time, current_calls)
        dict1 == TrackerAfter(user_tracker, current_minute, current_calls)
    IN  /\ MayCall(u, current_minute)
        /\ api_call_tracker' =
              [x \in (DOMAIN api_call_tracker) \cup {u} |->
                  IF x = u THEN ref ELSE api_call_tracker[x]]
        /\ heap' = IF isNew THEN Append(heap, dict1) ELSE [heap EXCEPT ![ref] = dict1]
        /\ hist' = [hist EXCEPT
                      ![u] = HistAfter(@, current_minute, current_calls, res)]
        /\ UNCHANGED <<now, pc, frame, fileVars, scanVars, contentVars, sanitizeVars,
                       profileVars, cleanVars, sessionVars>>

ValidateApiUsage(u) == ApiUsage(u) /\ UNCHANGED admissions

\* The admissions of the 60 seconds that end at current_time, by their instant, after
\* a call made at current_time.
AdmissionsAfter(recent, current_time, allowed) ==
    LET kept == {t \in DOMAIN recent : t > current_time - SecondsPerMinute}
        instants == IF allowed THEN kept \cup {current_time} ELSE kept
    IN  [t \in instants |->
            (IF t \in kept THEN recent[t] ELSE 0)
            + (IF allowed /\ t = current_time THEN 1 ELSE 0)]

\* The identity whose admissions are counted by their instant.
WindowUser == "u1"

\* validate_api_usage(user_id) with the instant of the admission noted.
TimedApiUsage ==
    /\ ApiUsage(WindowUser)
    /\ admissions' = AdmissionsAfter(admissions, now, hist'[WindowUser].result.allowed)

\* The clock moves on to a later instant.
Tick ==
    /\ \E t \in Instants : t > now /\ now' = t
    /\ UNCHANGED <<api_call_tracker, heap, hist, pc, frame, fileVars, dataVars>>

(***************************************************************************)
(* validate_api_usage called from several threads: the same code, one      *)
(* action per statement that reads or writes the shared tracker. Nothing   *)
(* in the method takes a lock, so the threads' steps interleave freely.    *)
(***************************************************************************)

\* The identities the threads call for.
ConcUsers == {"u1"}

\* current_time = time.time(); current_minute = int(current_time // 60)
Enter(t, u) ==
    /\ pc[t] = "idle"
    /\ MayCall(u, MinuteOf(now))
    /\ frame' = [frame EXCEPT ![t] = [NoFrame EXCEPT !.user_id = u,
                                                     !.current_time = now,
                                                     !.current_minute = MinuteOf(now)]]
    /\ pc' = [pc EXCEPT ![t] = "check"]
    /\ UNCHANGED <<now, api_call_tracker, heap, hist, fileVars, dataVars>>

\* if user_id not in self.api_call_tracker:
CheckKnown(t) ==
    /\ pc[t] = "check"
    /\ pc' = [pc EXCEPT ![t] = IF frame[t].user_id \in DOMAIN api_call_tracker
                               THEN "bind" ELSE "create"]
    /\ UNCHANGED <<now, api_call_tracker, heap, hist, frame, fileVars, dataVars>>

\* self.api_call_tracker[user_id] = {}
Create(t) ==
    /\ pc[t] = "create"
    /\ heap' = Append(heap, EmptyDict)
    /\ api_call_tracker' =
          [x \in (DOMAIN api_call_tracker) \cup {frame[t].user_id} |->
              IF x = frame[t].user_id THEN NewRef ELSE api_call_tracker[x]]
    /\ pc' = [pc EXCEPT ![t] = "bind"]
    /\ UNCHANGED <<now, hist, frame, fileVars, dataVars>>

\* user_tracker = self.api_call_tracker[user_id]
Bind(t) ==
    /\ pc[t] = "bind"
    /\ frame' = [frame EXCEPT ![t].user_tracker = api_call_tracker[frame[t].user_id]]
    /\ pc' = [pc EXCEPT ![t] = "prune"]
    /\ UNCHANGED <<now, api_call_tracker, heap, hist, fileVars, dataVars>>

\* old_minutes = [...]; for old_minute in old_minutes: del user_tracker[old_minute]
\* (the scan of the keys and the deletions taken as one step)
Prune(t) ==
    /\ pc[t] = "prune"
    /\ heap' = [heap EXCEPT ![frame[t].user_tracker] = Pruned(@, frame[t].current_minute)]
    /\ pc' = [pc EXCEPT ![t] = "read"]
    /\ UNCHANGED <<now, api_call_tracker, hist, frame, fileVars, dataVars>>

\* current_calls = user_tracker.get(current_minute, 0)
ReadCount(t) ==
    /\ pc[t] = "read"
    /\ frame' = [frame EXCEPT ![t].current_calls =
                    CurrentCalls(heap[frame[t].user_tracker], frame[t].current_minute)]
    /\ pc' = [pc EXCEPT ![t] = "decide"]
    /\ UNCHANGED <<now, api_call_tracker, heap, hist, fileVars, dataVars>>

\* if current_calls >= MAX: return denial; user_tracker[current_minute] = current_calls + 1;
\* return admission
Finish(t) ==
    LET f == frame[t]
        res == ResultOf(f.current_time, f.current_calls)
    IN  /\ pc[t] = "decide"
        /\ heap' = [heap EXCEPT ![f.user_tracker] =
                       TrackerAfter(@, f.current_minute, f.current_calls)]
        /\ hist' = [hist EXCEPT ![f.user_id] =
                       HistAfter(@, f.current_minute, f.current_calls, res)]
        /\ pc' = [pc EXCEPT ![t] = "idle"]
        /\ frame' = [frame EXCEPT ![t] = NoFrame]
        /\ UNCHANGED <<now, api_call_tracker, fileVars, dataVars>>

\* The instants at which the threads observe the clock.
ConcInstants == {0, SecondsPerMinute}

\* The clock moves on while threads are inside the method.
TickConc ==
    /\ \E t \in ConcInstants : t > now /\ now' = t
    /\ UNCHANGED <<api_call_tracker, heap, hist, pc, frame, fileVars, dataVars>>


(***************************************************************************)
(* Content scan: utils/__init__.py, SecureFileHandler._security_scan, and  *)
(* the catalogue of utils/security.py, _load_suspicious_patterns           *)
(***************************************************************************)

\* suspicious_patterns of _security_scan. Each \\ of these raw strings is an escaped
\* backslash: r'DROP\\s+TABLE' is DROP, a backslash, one or more 's', TABLE.
scan_suspicious_patterns ==
    <<
      \* r'<script[^>]*>.*?</script>'
      Lits(<<"<", "s", "c", "r", "i", "p", "t">>) \o <<NotSet({">"}, "*")>> \o Lits(<<">">>) \o
        <<AnyChar("*")>> \o Lits(<<"<", "/", "s", "c", "r", "i", "p", "t", ">">>),
      \* r'javascript:'
      Lits(<<"j", "a", "v", "a", "s", "c", "r", "i", "p", "t", ":">>),
      \* r'vbscript:'
      Lits(<<"v", "b", "s", "c", "r", "i", "p", "t", ":">>),
      \* r'on\\w+\\s*='
      Lits(<<"o", "n", "\\">>) \o <<Set({"w"}, "+")>> \o Lits(<<"\\">>) \o
        <<Set({"s"}, "*")>> \o Lits(<<"=">>),
      \* r'SELECT.*FROM'
      Lits(<<"S", "E", "L", "E", "C", "T">>) \o <<AnyChar("*")>> \o Lits(<<"F", "R", "O", "M">>),
      \* r'DROP\\s+TABLE'
      Lits(<<"D", "R", "O", "P", "\\">>) \o <<Set({"s"}, "+")>> \o
        Lits(<<"T", "A", "B", "L", "E">>),
      \* r'INSERT\\s+INTO'
      Lits(<<"I", "N", "S", "E", "R", "T", "\\">>) \o <<Set({"s"}, "+")>> \o
        Lits(<<"I", "N", "T", "O">>),
      \* r'UPDATE\\s+.*SET'
      Lits(<<"U", "P", "D", "A", "T", "E", "\\">>) \o <<Set({"s"}, "+")>> \o
        <<AnyChar("*")>> \o Lits(<<"S", "E", "T">>),
      \* r'DELETE\\s+FROM'
      Lits(<<"D", "E", "L", "E", "T", "E", "\\">>) \o <<Set({"s"}, "+")>> \o
        Lits(<<"F", "R", "O", "M">>)
    >>

\* SecurityConfig._load_suspicious_patterns
suspicious_patterns ==
    <<
      \* r'<script[^>]*>.*?</script>'
      Lits(<<"<", "s", "c", "r", "i", "p", "t">>) \o <<NotSet({">"}, "*")>> \o Lits(<<">">>) \o
        <<AnyChar("*")>> \o Lits(<<"<", "/", "s", "c", "r", "i", "p", "t", ">">>),
      \* r'javascript:'
      Lits(<<"j", "a", "v", "a", "s", "c", "r", "i", "p", "t", ":">>),
      \* r'vbscript:'
      Lits(<<"v", "b", "s", "c", "r", "i", "p", "t", ":">>),
      \* r'on\w+\s*='
      Lits(<<"o", "n">>) \o <<Set(WordChars, "+")>> \o <<Set(Whitespace, "*")>> \o Lits(<<"=">>),
      \* r'<iframe[^>]*>'
      Lits(<<"<", "i", "f", "r", "a", "m", "e">>) \o <<NotSet({">"}, "*")>> \o Lits(<<">">>),
      \* r'<object[^>]*>'
      Lits(<<"<", "o", "b", "j", "e", "c", "t">>) \o <<NotSet({">"}, "*")>> \o Lits(<<">">>),
      \* r'<embed[^>]*>'
      Lits(<<"<", "e", "m", "b", "e", "d">>) \o <<NotSet({">"}, "*")>> \o Lits(<<">">>),
      \* r'<form[^>]*>'
      Lits(<<"<", "f", "o", "r", "m">>) \o <<NotSet({">"}, "*")>> \o Lits(<<">">>),
      \* r'SELECT\s+.*\s+FROM'
      Lits(<<"S", "E", "L", "E", "C", "T">>) \o <<Set(Whitespace, "+")>> \o <<AnyChar("*")>> \o
        <<Set(Whitespace, "+")>> \o Lits(<<"F", "R", "O", "M">>),
      \* r'INSERT\s+INTO'
      Lits(<<"I", "N", "S", "E", "R", "T">>) \o <<Set(Whitespace, "+")>> \o
        Lits(<<"I", "N", "T", "O">>),
      \* r'UPDATE\s+.*\s+SET'
      Lits(<<"U", "P", "D", "A", "T", "E">>) \o <<Set(Whitespace, "+")>> \o <<AnyChar("*")>> \o
        <<Set(Whitespace, "+")>> \o Lits(<<"S", "E", "T">>),
      \* r'DELETE\s+FROM'
      Lits(<<"D", "E", "L", "E", "T", "E">>) \o <<Set(Whitespace, "+")>> \o
        Lits(<<"F", "R", "O", "M">>),
      \* r'DROP\s+TABLE'
      Lits(<<"D", "R", "O", "P">>) \o <<Set(Whitespace, "+")>> \o
        Lits(<<"T", "A", "B", "L", "E">>),
      \* r'DROP\s+DATABASE'
      Lits(<<"D", "R", "O", "P">>) \o <<Set(Whitespace, "+")>> \o
        Lits(<<"D", "A", "T", "A", "B", "A", "S", "E">>),
      \* r'UNION\s+SELECT'
      Lits(<<"U", "N", "I", "O", "N">>) \o <<Set(Whitespace, "+")>> \o
        Lits(<<"S", "E", "L", "E", "C", "T">>),
      \* r'OR\s+1\s*=\s*1'
      Lits(<<"O", "R">>) \o <<Set(Whitespace, "+")>> \o Lits(<<"1">>) \o
        <<Set(Whitespace, "*")>> \o Lits(<<"=">>) \o <<Set(Whitespace, "*")>> \o Lits(<<"1">>),
      \* r''\s*OR\s*'.*'\s*=\s*''
      Lits(<<"'">>) \o <<Set(Whitespace, "*")>> \o Lits(<<"O", "R">>) \o
        <<Set(Whitespace, "*")>> \o Lits(<<"'">>) \o <<AnyChar("*")>> \o Lits(<<"'">>) \o
        <<Set(Whitespace, "*")>> \o Lits(<<"=">>) \o <<Set(Whitespace, "*")>> \o Lits(<<"'">>),
      \* r';\s*rm\s+-rf'
      Lits(<<";">>) \o <<Set(Whitespace, "*")>> \o Lits(<<"r", "m">>) \o
        <<Set(Whitespace, "+")>> \o Lits(<<"-", "r", "f">>),
      \* r';\s*cat\s+/etc/'
      Lits(<<";">>) \o <<Set(Whitespace, "*")>> \o Lits(<<"c", "a", "t">>) \o
        <<Set(Whitespace, "+")>> \o Lits(<<"/", "e", "t", "c", "/">>),
      \* r';\s*wget\s+'
      Lits(<<";">>) \o <<Set(Whitespace, "*")>> \o Lits(<<"w", "g", "e", "t">>) \o
        <<Set(Whitespace, "+")>>,
      \* r';\s*curl\s+'
      Lits(<<";">>) \o <<Set(Whitespace, "*")>> \o Lits(<<"c", "u", "r", "l">>) \o
        <<Set(Whitespace, "+")>>,
      \* r'\|\s*nc\s+'
      Lits(<<"|">>) \o <<Set(Whitespace, "*")>> \o Lits(<<"n", "c">>) \o
        <<Set(Whitespace, "+")>>,
      \* r'&&\s*rm\s+'
      Lits(<<"&", "&">>) \o <<Set(Whitespace, "*")>> \o Lits(<<"r", "m">>) \o
        <<Set(Whitespace, "+")>>,
      \* r'\.\./'
      Lits(<<".", ".", "/">>),
      \* r'\.\.\\'
      Lits(<<".", ".", "\\">>),
      \* r'/etc/passwd'
      Lits(<<"/", "e", "t", "c", "/", "p", "a", "s", "s", "w", "d">>),
      \* r'/etc/shadow'
      Lits(<<"/", "e", "t", "c", "/", "s", "h", "a", "d", "o", "w">>),
      \* r'C:\\Windows'
      Lits(<<"C", ":", "\\", "W", "i", "n", "d", "o", "w", "s">>),
      \* r'eval\s*\('
      Lits(<<"e", "v", "a", "l">>) \o <<Set(Whitespace, "*")>> \o Lits(<<"(">>),
      \* r'exec\s*\('
      Lits(<<"e", "x", "e", "c">>) \o <<Set(Whitespace, "*")>> \o Lits(<<"(">>),
      \* r'system\s*\('
      Lits(<<"s", "y", "s", "t", "e", "m">>) \o <<Set(Whitespace, "*")>> \o Lits(<<"(">>),
      \* r'shell_exec\s*\('
      Lits(<<"s", "h", "e", "l", "l", "_", "e", "x", "e", "c">>) \o <<Set(Whitespace, "*")>> \o
        Lits(<<"(">>),
      \* r'base64_decode\s*\('
      Lits(<<"b", "a", "s", "e", "6", "4", "_", "d", "e", "c", "o", "d", "e">>) \o
        <<Set(Whitespace, "*")>> \o Lits(<<"(">>)
    >>

max_cell_size == 10000

\* A DataFrame is the sequence of its columns [name, dtype, cells]; a cell is
\* [isnull, str], str being the cell as astype(str) renders it.
Cell(text) == [isnull |-> FALSE, str |-> text]
NullCell == [isnull |-> TRUE, str |-> <<>>]

CellDropTable == <<"D", "R", "O", "P", " ", "T", "A", "B", "L", "E", " ", "u", "s", "e", "r", "s">>
CellOnclick == <<"x", " ", "o", "n", "c", "l", "i", "c", "k", "=", "y">>
CellIframe == <<"<", "i", "f", "r", "a", "m", "e", " ", "s", "r", "c", "=", "a", ">">>
CellRmRf == <<";", " ", "r", "m", " ", "-", "r", "f", " ", "/">>
CellDotDot == <<".", ".", "/", "s", "e", "c", "r", "e", "t">>
CellEval == <<"e", "v", "a", "l", "(", "x", ")">>
CellScript == <<"<", "s", "c", "r", "i", "p", "t", ">", "a", "l", "e", "r", "t", "(", "1", ")", "<", "/", "s", "c", "r", "i", "p", "t", ">">>
CellNormal == <<"N", "o", "r", "m", "a", "l", " ", "c", "o", "m", "m", "e", "n", "t">>
CellSelectFrom == <<"s", "e", "l", "e", "c", "t", "f", "r", "o", "m">>
CellSelectedItems == <<"S", "e", "l", "e", "c", "t", "e", "d", "I", "t", "e", "m", "s", "F", "r", "o", "m", "S", "t", "o", "r", "e">>
CellJohn == <<"J", "o", "h", "n">>
CellJane == <<"J", "a", "n", "e">>
CellJavascript == <<"J", "a", "v", "a", "S", "c", "r", "i", "p", "t", ":", "g", "o">>
CellSqlQuery == <<"s", "e", "l", "e", "c", "t", " ", "a", " ", "f", "r", "o", "m", " ", "t">>
CellBob == <<"B", "o", "b">>
CellNewYork == <<"N", "e", "w", " ", "Y", "o", "r", "k">>
CellChicago == <<"C", "h", "i", "c", "a", "g", "o">>
CellLA == <<"L", "A">>
CellEmail == <<"a", ".", "b", "@", "x", ".", "c", "o">>
CellPhone == <<"5", "5", "5", "-", "1", "2", "3", "-", "4", "5", "6", "7">>
CellSsn == <<"1", "2", "3", "-", "4", "5", "-", "6", "7", "8", "9">>
CellCard == <<"4", "1", "1", "1", " ", "1", "1", "1", "1", " ", "1", "1", "1", "1", " ", "1", "1", "1", "1">>
\* "a" * (max_cell_size + 1)
CellLong == SubSeq([i \in 1..(max_cell_size + 1) |-> "a"], 1, max_cell_size + 1)

\* The texts of the model's cells.
TextPool ==
    {CellDropTable, CellOnclick, CellIframe, CellRmRf,
     CellDotDot, CellEval, CellScript, CellNormal,
     CellSelectFrom, CellSelectedItems, CellJohn, CellJane,
     CellJavascript, CellSqlQuery,
     CellBob, CellNewYork, CellChicago, CellLA,
     CellEmail, CellPhone, CellSsn, CellCard,
     CellLong}

\* A necessary condition of a match, looked at first to spare the search of a long
\* text: every item that has to consume a character accepts a character of the text.
Feasible(items, text, icase) ==
    LET chars == Range(text)
    IN  \A i \in DOMAIN items :
            (items[i].kind = "set" /\ items[i].q \in {"1", "+"}) =>
                \E c \in chars : InSet(c, items[i].chars, icase)

\* For every text of the pool, the patterns of the list that re.search finds in it
\* (case=False: re.IGNORECASE).
HitsOf(patterns) ==
    [text \in TextPool |->
        {k \in DOMAIN patterns :
            Feasible(patterns[k], text, TRUE) /\ Search(patterns[k], text, TRUE)}]
ScanHits == HitsOf(scan_suspicious_patterns)
CatalogueHits == HitsOf(suspicious_patterns)

\* col_data.str.contains(pattern, case=False, regex=True, na=False).any(), col_data
\* being df[col].dropna().astype(str), for the k-th pattern of _security_scan
ColumnContains(col, k) ==
    \E i \in DOMAIN col.cells : ~col.cells[i].isnull /\ k \in ScanHits[col.cells[i].str]

\* cell_sizes.max() > max_cell_size, cell_sizes being the lengths of the non-null cells
\* (the max of no cells is NaN, and NaN > max_cell_size is False)
ColumnTooLarge(col) ==
    \E i \in DOMAIN col.cells : ~col.cells[i].isnull /\ Len(col.cells[i].str) > max_cell_size

First(S) == CHOOSE i \in S : \A j \in S : i <= j

ScanSuspicious == "Suspicious content detected in column"
ScanTooLarge == "Cell content exceeds size limit in column"
ScanPassed == "Security scan passed"

ScanFailed == "Security scan failed"

\* The input of a scan that stands for malformed data: the position in df of the one
\* column on which statements of the scan raise, and which statements do: "patterns" is
\* the conversion and pattern search of the column (__init__.py 220-223, security.py
\* 176-179), "cell_size" the measuring of its cells (__init__.py 233, security.py 149),
\* "pii" the PII search (security.py 205-208).
RaisePoints == {"patterns", "cell_size", "pii"}
NoRaise == [column |-> 0, at |-> {}]
Raises(raising, c, point) == raising.column = c /\ point \in raising.at

\* The positions in df of df.select_dtypes(include=['object']).columns, in order.
StringColumnIndexes(df) ==
    LET IsObject(c) == df[c].dtype = "object"
    IN  SelectSeq([c \in 1..Len(df) |-> c], IsObject)

\* The whole function: the try block returns at the first column that has a pattern, then
\* at the first object column with an oversized cell; a statement that raises ends it in
\* the except branch.
_security_scan(df, raising) ==
    LET string_columns == StringColumnIndexes(df)
        Suspicious(c) == \E k \in DOMAIN scan_suspicious_patterns : ColumnContains(df[c], k)
        stops == {i \in DOMAIN string_columns :
                     \/ Raises(raising, string_columns[i], "patterns")
                     \/ Suspicious(string_columns[i])}
        oversized == {c \in DOMAIN df :
                         /\ df[c].dtype = "object"
                         /\ Raises(raising, c, "cell_size") \/ ColumnTooLarge(df[c])}
    IN  IF stops # {}
        THEN LET c == string_columns[First(stops)]
             IN  IF Raises(raising, c, "patterns")
                 THEN [safe |-> FALSE, message |-> ScanFailed, column |-> ""]
                 ELSE [safe |-> FALSE, message |-> ScanSuspicious, column |-> df[c].name]
        ELSE IF oversized # {}
        THEN LET c == First(oversized)
             IN  IF Raises(raising, c, "cell_size")
                 THEN [safe |-> FALSE, message |-> ScanFailed, column |-> ""]
                 ELSE [safe |-> FALSE, message |-> ScanTooLarge, column |-> df[c].name]
        ELSE [safe |-> TRUE, message |-> ScanPassed, column |-> ""]

(***************************************************************************)
(* Permissive scan: utils/security.py, SecurityConfig.validate_data_content *)
(***************************************************************************)

MAX_CELL_SIZE_CHARS == 10000
MAX_COLUMNS == 1000
MAX_ROWS == 1000000

\* pii_patterns of _check_for_pii, in the order of the dict
pii_patterns ==
    <<
      \* r'[a-zA-Z0-9._%+-]+@[a-zA-Z0-9.-]+\.[a-zA-Z]{2,}'
      [pii_type |-> "email",
       pattern |-> <<Set(Letters \cup Digits \cup {".", "_", "%", "+", "-"}, "+"), Lit("@"),
                     Set(Letters \cup Digits \cup {".", "-"}, "+"), Lit("."),
                     Set(Letters, "1"), Set(Letters, "+")>>],
      \* r'\b\d{3}[-.]?\d{3}[-.]?\d{4}\b'
      [pii_type |-> "phone",
       pattern |-> <<WordBoundary>> \o Times(Set(Digits, "1"), 3) \o <<Set({"-", "."}, "?")>> \o
                   Times(Set(Digits, "1"), 3) \o <<Set({"-", "."}, "?")>> \o
                   Times(Set(Digits, "1"), 4) \o <<WordBoundary>>],
      \* r'\b\d{3}-\d{2}-\d{4}\b'
      [pii_type |-> "ssn",
       pattern |-> <<WordBoundary>> \o Times(Set(Digits, "1"), 3) \o <<Lit("-")>> \o
                   Times(Set(Digits, "1"), 2) \o <<Lit("-")>> \o
                   Times(Set(Digits, "1"), 4) \o <<WordBoundary>>],
      \* r'\b\d{4}[-\s]?\d{4}[-\s]?\d{4}[-\s]?\d{4}\b'
      [pii_type |-> "credit_card",
       pattern |-> <<WordBoundary>> \o Times(Set(Digits, "1"), 4) \o
                   <<Set({"-"} \cup Whitespace, "?")>> \o Times(Set(Digits, "1"), 4) \o
                   <<Set({"-"} \cup Whitespace, "?")>> \o Times(Set(Digits, "1"), 4) \o
                   <<Set({"-"} \cup Whitespace, "?")>> \o Times(Set(Digits, "1"), 4) \o
                   <<WordBoundary>>]
    >>

\* For every text of the pool, the pii patterns str.contains finds in it (case=True).
PiiHits ==
    [text \in TextPool |->
        {k \in DOMAIN pii_patterns :
            /\ Feasible(pii_patterns[k].pattern, text, FALSE)
            /\ Search(pii_patterns[k].pattern, text, FALSE)}]

\* len(df)
NumRows(df) == IF Len(df) = 0 THEN 0 ELSE Len(df[1].cells)

\* The entries of errors and of warnings; the texts are kept as their kind and the
\* values formatted into them.
RowsError(n) == [kind |-> "rows", n |-> n]
ColumnsError(n) == [kind |-> "columns", n |-> n]
ValidationError == [kind |-> "Validation error"]
SuspiciousWarning(col) == [kind |-> "contains potentially suspicious content", column |-> col]
LargeCellsWarning(col) == [kind |-> "contains very large cells", column |-> col]
PiiWarning(col, pii_type) ==
    [kind |-> "may contain information", column |-> col, pii_type |-> pii_type]

\* The search that takes every non-null cell for a threat.
HasNonNullCell(col) == \E i \in DOMAIN col.cells : ~col.cells[i].isnull

\* The search done with the pattern list of _security_scan instead.
HasThreatOfScanList(col) ==
    \E i \in DOMAIN col.cells : ~col.cells[i].isnull /\ ScanHits[col.cells[i].str] # {}

\* column_str.str.contains(pattern, case=False, regex=True, na=False).any() for some
\* pattern of self.suspicious_patterns
HasThreat(col) ==
    \E i \in DOMAIN col.cells : ~col.cells[i].isnull /\ CatalogueHits[col.cells[i].str] # {}

\* _scan_column_for_threats(df[col]) for the column at position c: True at the first
\* pattern found, False when none is, and True from the except branch.
_scan_column_for_threats(df, c, raising) ==
    IF Raises(raising, c, "patterns") THEN TRUE ELSE HasThreat(df[c])

\* df[col].dropna().astype(str).str.len().max() > self.limits.MAX_CELL_SIZE_CHARS
\* (the max of no cells is NaN, and NaN > n is False)
HasLargeCell(col) ==
    \E i \in DOMAIN col.cells :
        ~col.cells[i].isnull /\ Len(col.cells[i].str) > MAX_CELL_SIZE_CHARS

\* col_data.str.contains(pattern, regex=True, na=False).any() for the k-th pii pattern
HasPii(col, k) ==
    \E i \in DOMAIN col.cells : ~col.cells[i].isnull /\ k \in PiiHits[col.cells[i].str]

\* _check_for_pii(df) when no statement of it raises: for each string column in order,
\* for each pii type in order, a warning if the column contains the pattern.
_check_for_pii(df) ==
    LET string_columns == StringColumnIndexes(df)
        n == Len(pii_patterns)
        pairs == [p \in 1..(Len(string_columns) * n) |->
                    [col |-> string_columns[((p - 1) \div n) + 1], k |-> ((p - 1) % n) + 1]]
        Found(pair) == HasPii(df[pair.col], pair.k)
        found == SelectSeq(pairs, Found)
    IN  [i \in DOMAIN found |->
            PiiWarning(df[found[i].col].name, pii_patterns[found[i].k].pii_type)]

\* validation_result = {'safe': True, ..., 'errors': []}; if len(df) > MAX_ROWS: the
\* error is appended and safe set False.
RowLimitCheck(df) ==
    IF NumRows(df) > MAX_ROWS
    THEN [safe |-> FALSE, errors |-> <<RowsError(NumRows(df))>>]
    ELSE [safe |-> TRUE, errors |-> <<>>]

\* A plausible slip: the column error is appended and safe left as it was.
ColumnLimitCheckKeepingSafe(checked, df) ==
    IF Len(df) > MAX_COLUMNS
    THEN [safe |-> checked.safe, errors |-> Append(checked.errors, ColumnsError(Len(df)))]
    ELSE checked

\* if len(df.columns) > MAX_COLUMNS: the error is appended and safe set False.
ColumnLimitCheck(checked, df) ==
    IF Len(df) > MAX_COLUMNS
    THEN [safe |-> FALSE, errors |-> Append(checked.errors, ColumnsError(Len(df)))]
    ELSE checked

\* The verdict made fatal by any finding.
SafeWithoutFindings(safe, warnings) == safe /\ warnings = <<>>

\* validation_result['safe'] when the try block ends: the statements that append
\* warnings leave it as the limit checks set it.
SafeAtReturn(safe, warnings) == safe

\* The whole function. A statement that raises outside _scan_column_for_threats ends
\* the try block in the except branch, which keeps what the result holds by then.
validate_data_content(df, raising) ==
    LET string_columns == StringColumnIndexes(df)
        limits == ColumnLimitCheck(RowLimitCheck(df), df)
        limit_errors == limits.errors
        Flagged(c) == _scan_column_for_threats(df, c, raising)
        flagged == SelectSeq(string_columns, Flagged)
        suspicious_columns == [i \in DOMAIN flagged |-> df[flagged[i]].name]
        suspicious_warnings == [i \in DOMAIN flagged |-> SuspiciousWarning(df[flagged[i]].name)]
        size_raises == {i \in DOMAIN string_columns :
                           Raises(raising, string_columns[i], "cell_size")}
        measured == IF size_raises = {} THEN string_columns
                    ELSE SubSeq(string_columns, 1, First(size_raises) - 1)
        Large(c) == HasLargeCell(df[c])
        large == SelectSeq(measured, Large)
        size_warnings == [i \in DOMAIN large |-> LargeCellsWarning(df[large[i]].name)]
        pii_raises == \E i \in DOMAIN string_columns :
                          Raises(raising, string_columns[i], "pii")
    IN  IF size_raises # {} \/ pii_raises
        THEN [safe |-> FALSE,
              warnings |-> suspicious_warnings \o size_warnings,
              errors |-> limit_errors \o <<ValidationError>>,
              suspicious_columns |-> suspicious_columns]
        ELSE [safe |-> SafeAtReturn(limits.safe,
                                    suspicious_warnings \o size_warnings \o _check_for_pii(df)),
              warnings |-> suspicious_warnings \o size_warnings \o _check_for_pii(df),
              errors |-> limit_errors,
              suspicious_columns |-> suspicious_columns]

\* Bound of the model: the most cells (columns x rows) of a generated table.
MaxCells == 2

ColumnNames == <<"name", "comment", "city", "notes", "remarks", "extra">>
ObjectCells == {Cell(text) : text \in TextPool} \cup {NullCell}
NumberCells == {Cell(<<"2", "5">>), NullCell}

\* The columns of a table of the given shape: the c-th is named ColumnNames[c].
Shapes == {s \in (1..MaxCells) \X (1..MaxCells) : s[1] * s[2] <= MaxCells}
ColumnsAt(c, rows) ==
    {[name |-> ColumnNames[c], dtype |-> "object", cells |-> cells] :
        cells \in [1..rows -> ObjectCells]}
    \cup {[name |-> ColumnNames[c], dtype |-> "int64", cells |-> cells] :
        cells \in [1..rows -> NumberCells]}
RECURSIVE TablesOf(_, _)
TablesOf(cols, rows) ==
    IF cols = 0 THEN {<<>>}
    ELSE {Append(df, col) : df \in TablesOf(cols - 1, rows), col \in ColumnsAt(cols, rows)}

\* The table of the concrete scenario: name = John, Jane; comment = Normal comment, script.
ScenarioTable ==
    <<[name |-> "name", dtype |-> "object", cells |-> <<Cell(CellJohn), Cell(CellJane)>>],
      [name |-> "comment", dtype |-> "object",
       cells |-> <<Cell(CellNormal), Cell(CellScript)>>]>>

\* The table of test_data_validation_safe: name, age, city.
SafeTable ==
    <<[name |-> "name", dtype |-> "object",
       cells |-> <<Cell(CellJohn), Cell(CellJane), Cell(CellBob)>>],
      [name |-> "age", dtype |-> "int64",
       cells |-> <<Cell(<<"2", "5">>), Cell(<<"3", "0">>), Cell(<<"3", "5">>)>>],
      [name |-> "city", dtype |-> "object",
       cells |-> <<Cell(CellNewYork), Cell(CellChicago), Cell(CellLA)>>]>>

\* A table with a finding of each kind: a script tag, an oversized cell, an email address.
FindingsTable ==
    <<[name |-> "comment", dtype |-> "object", cells |-> <<Cell(CellScript)>>],
      [name |-> "notes", dtype |-> "object", cells |-> <<Cell(CellLong)>>],
      [name |-> "extra", dtype |-> "object", cells |-> <<Cell(CellEmail)>>]>>

\* A table of MAX_COLUMNS + 1 numeric columns and no rows.
WideTable ==
    SubSeq([c \in 1..(MAX_COLUMNS + 1) |-> [name |-> "age", dtype |-> "int64", cells |-> <<>>]],
           1, MAX_COLUMNS + 1)

Tables == UNION {TablesOf(s[1], s[2]) : s \in Shapes} \cup {ScenarioTable, SafeTable}

NoTable == <<>>
NoScan == [safe |-> FALSE, message |-> "none", column |-> ""]
NoValidation ==
    [safe |-> FALSE, warnings |-> <<>>, errors |-> <<[kind |-> "none"]>>, suspicious_columns |-> <<>>]

\* The raise inputs of a table: none, or statements raising on one of its text columns.
RaisesOf(df) ==
    {NoRaise} \cup
    {[column |-> c, at |-> points] :
        c \in {c \in DOMAIN df : df[c].dtype = "object"},
        points \in (SUBSET RaisePoints) \ {{}}}

\* The tables of the content scans: those within the limits and the wide one.
ContentTables == Tables \cup {FindingsTable, WideTable}

\* security_check = self._security_scan(main_df)
SecurityScan ==
    /\ scan = NoScan
    /\ scan' = _security_scan(table, raises)
    /\ UNCHANGED <<table, rateVars, fileVars, contentVars, sanitizeVars, profileVars, cleanVars,
                   sessionVars, windowVars>>

\* validation = self.validate_data_content(df)
ValidateDataContent ==
    /\ validation_result = NoValidation
    /\ validation_result' = validate_data_content(table, raises)
    /\ UNCHANGED <<raises, scanVars, rateVars, fileVars, sanitizeVars, profileVars, cleanVars,
                   sessionVars, windowVars>>


(***************************************************************************)
(* Input sanitizing: utils/security.py, SecurityConfig.sanitize_input      *)
(***************************************************************************)

\* r'<script[^>]*>.*?</script>' with re.DOTALL: '.' is any character
script_tag_pattern ==
    Lits(<<"<", "s", "c", "r", "i", "p", "t">>) \o <<NotSet({">"}, "*")>> \o Lits(<<">">>) \o
    <<NotSet({}, "*?")>> \o Lits(<<"<", "/", "s", "c", "r", "i", "p", "t", ">">>)
\* r'javascript:'
javascript_pattern == Lits(<<"j", "a", "v", "a", "s", "c", "r", "i", "p", "t", ":">>)
\* r'vbscript:'
vbscript_pattern == Lits(<<"v", "b", "s", "c", "r", "i", "p", "t", ":">>)
\* on\w+\s*=\s*["'][^"']*["'], the pattern line 267 spells (its quoting is broken as
\* written); \w+ is one \w and then \w*
event_handler_pattern ==
    Lits(<<"o", "n">>) \o <<Set(WordChars, "1"), Set(WordChars, "*"), Set(Whitespace, "*")>> \o
    Lits(<<"=">>) \o <<Set(Whitespace, "*"), Set({"\"", "'"}, "1"), NotSet({"\"", "'"}, "*"),
                       Set({"\"", "'"}, "1")>>

MAX_INPUT_CHARS == 10000

\* sanitized[:10000]
Truncate(str) == IF Len(str) > MAX_INPUT_CHARS THEN SubSeq(str, 1, MAX_INPUT_CHARS) ELSE str

\* str.strip()
Strip(str) ==
    LET kept == {i \in DOMAIN str : str[i] \notin Whitespace}
    IN  IF kept = {} THEN <<>>
        ELSE SubSeq(str, First(kept), CHOOSE i \in kept : \A j \in kept : j <= i)

\* The steps of sanitize_input in their order, each on the result of the one before.
RemoveScriptTags(str) == Sub(script_tag_pattern, str, 1, TRUE)
RemoveUrls(str) == Sub(vbscript_pattern, Sub(javascript_pattern, str, 1, TRUE), 1, TRUE)
RemoveEventHandlers(str) == Sub(event_handler_pattern, str, 1, TRUE)

sanitize_input(text) ==
    Strip(Truncate(RemoveEventHandlers(RemoveUrls(RemoveScriptTags(text)))))

\* Bound of the model: the most fragments of a generated input.
MaxFragments == 3

Fragments ==
    {<<"<", "s", "c", "r", "i", "p", "t", ">">>,
     <<"<", "/", "s", "c", "r", "i", "p", "t", ">">>,
     <<"<", "s", "c", "r">>,
     <<"i", "p", "t", ">">>,
     <<"<", "S", "c", "R", "i", "P", "t">>,
     <<"a", "l", "e", "r", "t", "(", "1", ")">>,
     <<"j", "a", "v", "a", "s", "c", "r", "i", "p", "t", ":">>,
     <<"o", "n", "x", "=", "'", "y", "'">>,
     <<">">>,
     <<" ">>,
     <<"\n">>}

RECURSIVE Joined(_)
Joined(n) ==
    IF n = 0 THEN {<<>>}
    ELSE Joined(n - 1) \cup {str \o f : str \in Joined(n - 1), f \in Fragments}

\* "<script>alert('xss')</script>" of test_input_sanitization
TestInput ==
    <<"<", "s", "c", "r", "i", "p", "t", ">", "a", "l", "e", "r", "t", "(", "'", "x", "s", "s",
      "'", ")", "<", "/", "s", "c", "r", "i", "p", "t", ">">>
\* '<script>alert(1)'
UnclosedTagInput ==
    <<"<", "s", "c", "r", "i", "p", "t", ">", "a", "l", "e", "r", "t", "(", "1", ")">>
\* '<scr<script>x</script>ipt>alert(1)'
NestedTagInput ==
    <<"<", "s", "c", "r", "<", "s", "c", "r", "i", "p", "t", ">", "x", "<", "/", "s", "c", "r",
      "i", "p", "t", ">", "i", "p", "t", ">", "a", "l", "e", "r", "t", "(", "1", ")">>

InputTexts == Joined(MaxFragments) \cup {TestInput, UnclosedTagInput, NestedTagInput}

NoInput == <<>>
NotSanitized == [done |-> FALSE, text |-> <<>>]

\* sanitized = self.security.sanitize_input(malicious_input)
SanitizeInput ==
    /\ ~sanitized.done
    /\ sanitized' = [done |-> TRUE, text |-> sanitize_input(input_text)]
    /\ UNCHANGED <<input_text, rateVars, fileVars, scanVars, contentVars, profileVars, cleanVars,
                   sessionVars, windowVars>>

(***************************************************************************)
(* Profiling: utils/data_processor.py, DataProcessor                       *)
(***************************************************************************)

\* A cell of a numeric column: [isnull, value]; a null is NaN.
Num(v) == [isnull |-> FALSE, value |-> v]
NullNum == [isnull |-> TRUE, value |-> 0]

\* The dtypes df.select_dtypes(include=['number']) selects.
NumberDtypes == {"int64", "float64"}

RECURSIVE SumSeq(_)
SumSeq(seq) == IF seq = <<>> THEN 0 ELSE seq[1] + SumSeq(SubSeq(seq, 2, Len(seq)))

\* col_data.isnull().sum()
NullsIn(col) == Cardinality({i \in DOMAIN col.cells : col.cells[i].isnull})

\* df.isnull().sum().sum()
NullCount(df) == SumSeq([c \in DOMAIN df |-> NullsIn(df[c])])

\* The nearest integer to num / den, a tie going to the even one: how '.2f' rounds
\* the value it is given, here in hundredths.
RoundHalfEven(num, den) ==
    LET quotient == num \div den
        twice == 2 * (num % den)
    IN  IF twice < den \/ (twice = den /\ quotient % 2 = 0) THEN quotient ELSE quotient + 1

NanPercent == [kind |-> "nan", hundredths |-> 0]
Percent(hundredths) == [kind |-> "number", hundredths |-> hundredths]

\* f"{missing_percentage:.2f}%" for missing_percentage = nulls / cells * 100, the
\* hundredths as an integer; 0 / 0 in numpy arithmetic is nan.
MissingDataPercentage(df) ==
    LET cells == NumRows(df) * Len(df)
    IN  IF cells = 0 THEN NanPercent
        ELSE Percent(RoundHalfEven(NullCount(df) * 100 * 100, cells))

\* The non-null values of the column, which quantile() and the comparisons work on.
NonNullValues(col) ==
    LET NotNull(cell) == ~cell.isnull
        kept == SelectSeq(col.cells, NotNull)
    IN  [i \in DOMAIN kept |-> kept[i].value]

\* The element at index k (from 0) of the sorted values.
SortedAt(values, k) ==
    CHOOSE v \in Range(values) :
        /\ Cardinality({i \in DOMAIN values : values[i] < v}) <= k
        /\ k < Cardinality({i \in DOMAIN values : values[i] <= v})

\* Series.quantile(q) with the fraction taken between no neighbours: the lower one.
QuantileLower(values, quarters) == 4 * SortedAt(values, ((Len(values) - 1) * quarters) \div 4)

\* 4 * Series.quantile(quarters / 4) of the non-empty values: the default 'linear'
\* interpolation between the sorted values next to position (n - 1) * q.
Quantile(values, quarters) ==
    LET position == (Len(values) - 1) * quarters
        below == SortedAt(values, position \div 4)
        above == IF position % 4 = 0 THEN below ELSE SortedAt(values, (position \div 4) + 1)
    IN  4 * below + (position % 4) * (above - below)

LessOrEqual(a, b) == a <= b
\* col < bound and col > bound, as Less(bound, col)
Less(a, b) == a < b

\* len(col_data[(col_data < lower_bound) | (col_data > upper_bound)]); all numbers are
\* held times 8, which keeps Q1, Q3 and 1.5 * IQR integers. The quantile of no values
\* is NaN, and no comparison with NaN holds.
OutlierCount(col) ==
    LET values == NonNullValues(col)
        Q1 == 2 * Quantile(values, 1)
        Q3 == 2 * Quantile(values, 3)
        IQR == Q3 - Q1
        lower_bound == Q1 - (3 * IQR) \div 2
        upper_bound == Q3 + (3 * IQR) \div 2
    IN  IF values = <<>> THEN 0
        ELSE Cardinality({i \in DOMAIN values :
                             \/ Less(8 * values[i], lower_bound)
                             \/ Less(upper_bound, 8 * values[i])})

\* numeric_cols, categorical_cols: positions of the columns select_dtypes selects
NumericColumns(df) == {c \in DOMAIN df : df[c].dtype \in NumberDtypes}
CategoricalColumns(df) == {c \in DOMAIN df : df[c].dtype \in {"object", "category"}}

ReportRaised == [raised |-> TRUE, missing_data_percentage |-> NanPercent, potential_outliers |-> 0]

\* The ways a division by the zero len(df) * len(df.columns) of line 31 can end: nan
\* when the null count is a numpy number; for a table without columns the count is the
\* sum of an empty Series, and a Python number there raises ZeroDivisionError.
ZeroDivisionOutcomes(df) == IF Len(df) = 0 THEN {"nan", "raise"} ELSE {"nan"}

\* generate_quality_report(df): the entries missing_data_percentage and
\* potential_outliers of the dict. Its other entries (duplicate_rows,
\* lowest_column_completeness, avg_categorical_uniqueness) are computed from df on their
\* own; of them line 48 divides the Python int nunique() by len(df) and raises for a
\* table of no rows that has a categorical column.
generate_quality_report(df, zero_division) ==
    IF \/ NumRows(df) * Len(df) = 0 /\ zero_division = "raise"
       \/ NumRows(df) = 0 /\ CategoricalColumns(df) # {}
    THEN ReportRaised
    ELSE [raised |-> FALSE,
          missing_data_percentage |-> MissingDataPercentage(df),
          potential_outliers |->
              SumSeq([c \in DOMAIN df |->
                         IF c \in NumericColumns(df) THEN OutlierCount(df[c]) ELSE 0])]

ProfilesRaised == [raised |-> TRUE, columns |-> <<>>]

\* generate_column_profiles(df): per column name, dtype, count, null_count and, for a
\* numeric column, outlier_count (-1 stands for the missing key); the statistics that
\* update() adds are left out. Line 124 divides the Python int nunique() by len(df)
\* and raises for a table of no rows.
generate_column_profiles(df) ==
    IF Len(df) > 0 /\ NumRows(df) = 0 THEN ProfilesRaised
    ELSE [raised |-> FALSE,
          columns |->
              [c \in DOMAIN df |->
                  [name |-> df[c].name,
                   dtype |-> df[c].dtype,
                   count |-> Len(df[c].cells) - NullsIn(df[c]),
                   null_count |-> NullsIn(df[c]),
                   outlier_count |->
                       IF df[c].dtype \in NumberDtypes THEN OutlierCount(df[c]) ELSE -1]]]

\* Bound of the model: the most rows of a generated numeric column.
MaxValues == 4

SampleValues == {1, 2, 9}
NumberColumns(rows) ==
    {[name |-> "age", dtype |-> "float64", cells |-> cells] :
        cells \in [1..rows -> {Num(v) : v \in SampleValues} \cup {NullNum}]}

\* The age column of the outlier scenario: 10, 12, 11, 13, 12, 100.
AgeColumn ==
    [name |-> "age", dtype |-> "int64",
     cells |-> <<Num(10), Num(12), Num(11), Num(13), Num(12), Num(100)>>]

\* Two numeric columns of equal values, with nulls, of different lengths of values.
ConstantsTable ==
    <<[name |-> "age", dtype |-> "float64",
       cells |-> <<Num(9), NullNum, Num(9), Num(9), NullNum, Num(9)>>],
      [name |-> "extra", dtype |-> "float64",
       cells |-> <<NullNum, NullNum, Num(2), NullNum, NullNum, NullNum>>]>>

\* Two numeric columns and a text column.
MixedTable ==
    <<AgeColumn,
      [name |-> "name", dtype |-> "object",
       cells |-> <<Cell(CellJohn), Cell(CellJane), NullCell, Cell(CellBob), Cell(CellJohn),
                   Cell(CellJane)>>],
      [name |-> "extra", dtype |-> "float64",
       cells |-> <<Num(1), Num(1), Num(1), NullNum, Num(9), Num(1)>>]>>

\* Tables of no rows: with a numeric column, with a text column; and the table of no
\* columns is <<>>.
NoRowsNumeric == <<[name |-> "age", dtype |-> "int64", cells |-> <<>>]>>
NoRowsText == <<[name |-> "name", dtype |-> "object", cells |-> <<>>]>>

\* One null among 100,000 cells.
ManyCells == 100000
SparseNullTable ==
    <<[name |-> "name", dtype |-> "object",
       cells |-> SubSeq([i \in 1..ManyCells |-> IF i = 1 THEN NullCell ELSE Cell(CellJohn)],
                        1, ManyCells)]>>

ProfileTables ==
    {<<col>> : col \in UNION {NumberColumns(rows) : rows \in 1..MaxValues}}
    \cup {<<>>, NoRowsNumeric, NoRowsText, <<AgeColumn>>, MixedTable, ConstantsTable,
          SparseNullTable}

NoReport == [raised |-> FALSE, missing_data_percentage |-> NanPercent, potential_outliers |-> -1]
NoProfiles == [raised |-> FALSE, columns |-> <<[name |-> "none"]>>]

\* quality_report = data_processor.generate_quality_report(st.session_state.data)
GenerateQualityReport ==
    /\ quality_metrics = NoReport
    /\ \E zero_division \in ZeroDivisionOutcomes(table) :
          quality_metrics' = generate_quality_report(table, zero_division)
    /\ UNCHANGED <<profiles, scanVars, rateVars, fileVars, contentVars, sanitizeVars, cleanVars,
                   sessionVars, windowVars>>

\* profiles = data_processor.generate_column_profiles(df)
GenerateColumnProfiles ==
    /\ profiles = NoProfiles
    /\ profiles' = generate_column_profiles(table)
    /\ UNCHANGED <<quality_metrics, scanVars, rateVars, fileVars, contentVars, sanitizeVars, cleanVars,
                   sessionVars, windowVars>>

(***************************************************************************)
(* DataProcessor.clean_data                                                *)
(***************************************************************************)

\* The switches clean_data uses when cleaning_options is None.
DefaultOptions ==
    [is_none |-> FALSE, remove_duplicates |-> TRUE, fill_numeric_missing |-> FALSE,
     fill_categorical_missing |-> FALSE, remove_outliers |-> FALSE]

\* cleaning_options = None
OptionsNone ==
    [is_none |-> TRUE, remove_duplicates |-> FALSE, fill_numeric_missing |-> FALSE,
     fill_categorical_missing |-> FALSE, remove_outliers |-> FALSE]

\* if cleaning_options is None: cleaning_options = {...}
EffectiveOptions(options) == IF options.is_none THEN DefaultOptions ELSE options

\* The cells of row i, column by column.
Row(df, i) == [c \in DOMAIN df |-> df[c].cells[i]]

\* The rows of df at the positions kept, in that order.
TakeRows(df, kept) ==
    [c \in DOMAIN df |->
        [df[c] EXCEPT !.cells = [k \in DOMAIN kept |-> df[c].cells[kept[k]]]]]

\* df.duplicated().sum(): the rows equal to a row before them.
DuplicateRows(df) ==
    Cardinality({i \in 1..NumRows(df) : \E j \in 1..(i - 1) : Row(df, j) = Row(df, i)})

\* get_data_summary(df), the counts of its result.
get_data_summary(df) ==
    [total_rows |-> NumRows(df),
     total_columns |-> Len(df),
     missing_values |-> NullCount(df),
     duplicate_rows |-> DuplicateRows(df)]

\* A plausible slip: the last of every group of equal rows is kept (keep='last').
drop_duplicates_keep_last(df) ==
    LET Last_(i) == \A j \in (i + 1)..NumRows(df) : Row(df, j) # Row(df, i)
        kept == SelectSeq([i \in 1..NumRows(df) |-> i], Last_)
    IN  TakeRows(df, kept)

\* df.drop_duplicates(): a new table with the first of every group of equal rows
\* (nulls equal nulls), in the order of df.
drop_duplicates(df) ==
    LET First_(i) == \A j \in 1..(i - 1) : Row(df, j) # Row(df, i)
        kept == SelectSeq([i \in 1..NumRows(df) |-> i], First_)
    IN  TakeRows(df, kept)

\* col.isnull().any()
AnyNull(col) == \E i \in DOMAIN col.cells : col.cells[i].isnull

\* The cell holding four_times / 4; a value that is no whole number keeps its quarters.
NumberCell(four_times) ==
    IF four_times % 4 = 0
    THEN Num(four_times \div 4)
    ELSE [isnull |-> FALSE, value |-> four_times \div 4, quarters |-> four_times % 4]

\* col.fillna(fill): the nulls of col replaced by the cell fill.
FillNa(col, fill) ==
    [col EXCEPT !.cells =
        [i \in DOMAIN col.cells |-> IF col.cells[i].isnull THEN fill ELSE col.cells[i]]]

\* col.fillna(col.median()): a column of nulls only has the median NaN and stays as it is.
FillWithMedian(col) ==
    IF NonNullValues(col) = <<>> THEN col
    ELSE FillNa(col, NumberCell(Quantile(NonNullValues(col), 2)))

\* The characters of the texts of the model in the order of their code points.
CodePoints ==
    <<" ", "A", "B", "C", "D", "E", "F", "G", "H", "I", "J", "K", "L", "M", "N", "O", "P",
      "Q", "R", "S", "T", "U", "V", "W", "X", "Y", "Z", "a", "b", "c", "d", "e", "f", "g",
      "h", "i", "j", "k", "l", "m", "n", "o", "p", "q", "r", "s", "t", "u", "v", "w", "x",
      "y", "z">>

Ord(char) == CHOOSE k \in DOMAIN CodePoints : CodePoints[k] = char

\* a < b for Python strings.
RECURSIVE TextLess(_, _)
TextLess(a, b) ==
    IF b = <<>> THEN FALSE
    ELSE IF a = <<>> THEN TRUE
    ELSE IF a[1] # b[1] THEN Ord(a[1]) < Ord(b[1])
    ELSE TextLess(SubSeq(a, 2, Len(a)), SubSeq(b, 2, Len(b)))

Unknown == <<"U", "n", "k", "n", "o", "w", "n">>

\* col.mode().iloc[0] if len(col.mode()) > 0 else 'Unknown': the most frequent text of the
\* column, the least one of several.
ModeValue(col) ==
    LET texts == {col.cells[i].str : i \in {j \in DOMAIN col.cells : ~col.cells[j].isnull}}
        Count(t) == Cardinality({i \in DOMAIN col.cells :
                                    ~col.cells[i].isnull /\ col.cells[i].str = t})
        modes == {t \in texts : \A u \in texts : Count(u) <= Count(t)}
    IN  IF texts = {} THEN Unknown
        ELSE CHOOSE t \in modes : \A u \in modes : u = t \/ TextLess(t, u)

\* The frame after the two fill loops, when every cleaned_df[col].fillna(value,
\* inplace=True) reaches the frame.
FillColumns(df, options) ==
    [c \in DOMAIN df |->
        IF options.fill_numeric_missing /\ df[c].dtype \in NumberDtypes /\ AnyNull(df[c])
        THEN FillWithMedian(df[c])
        ELSE IF /\ options.fill_categorical_missing
                /\ df[c].dtype \in {"object", "category"}
                /\ AnyNull(df[c])
        THEN FillNa(df[c], Cell(ModeValue(df[c])))
        ELSE df[c]]

\* The frame object the caller's name refers to, instead of a new one.
SameFrame(objects, ref) ==
    [objects |-> objects, ref |-> ref]

\* df.copy(): a new frame object holding the cells of the frame at ref.
Copy(objects, ref) ==
    [objects |-> Append(objects, objects[ref]), ref |-> Len(objects) + 1]

\* clean_data(df, cleaning_options), df being the frame at reference df in objects. The
\* result is the frame objects after the call and the reference returned. fillna with
\* inplace=True acts on the Series cleaned_df[col] gives: a view of the frame, whose
\* cells it fills, or under copy-on-write a Series of its own, which leaves the frame alone.
clean_data(objects, df, given_options, copy_on_write) ==
    LET options == EffectiveOptions(given_options)
        copied == Copy(objects, df)
        deduplicated ==
            IF options.remove_duplicates
            THEN [objects |-> Append(copied.objects, drop_duplicates(copied.objects[copied.ref])),
                  ref |-> Len(copied.objects) + 1]
            ELSE copied
        cleaned == deduplicated.ref
        filled == FillColumns(deduplicated.objects[cleaned], options)
    IN  [objects |-> IF copy_on_write THEN deduplicated.objects
                     ELSE [deduplicated.objects EXCEPT ![cleaned] = filled],
         ref |-> cleaned]

MaxCleanRows == 3

\* Tables of an age and a name column with up to MaxCleanRows rows.
CleanTablesOf(rows) ==
    {<<[name |-> "age", dtype |-> "float64", cells |-> ages],
       [name |-> "name", dtype |-> "object", cells |-> names]>> :
        ages \in [1..rows -> {Num(1), Num(2), NullNum}],
        names \in [1..rows -> {Cell(CellJohn), Cell(CellJane), NullCell}]}

CleanTables == UNION {CleanTablesOf(rows) : rows \in 0..MaxCleanRows}

CleaningOptions ==
    {OptionsNone} \cup
    [is_none : {FALSE}, remove_duplicates : BOOLEAN, fill_numeric_missing : BOOLEAN,
     fill_categorical_missing : BOOLEAN, remove_outliers : BOOLEAN]

\* The reference of the caller's table among the frame objects, and no reference.
InputFrame == 1
NoFrameRef == 0

\* cleaned = data_processor.clean_data(df, cleaning_options)
CleanData ==
    /\ cleaned_df = NoFrameRef
    /\ \E copy_on_write \in BOOLEAN :
          LET result == clean_data(frames, InputFrame, cleaning_options, copy_on_write)
          IN  /\ frames' = result.objects
              /\ cleaned_df' = result.ref
    /\ UNCHANGED <<table, cleaning_options, scan, rateVars, fileVars, contentVars,
                   sanitizeVars, profileVars, sessionVars, windowVars>>

(***************************************************************************)
(* SecureFileHandler.validate_and_process and the session of app.py        *)
(***************************************************************************)

\* Python's None.
None == [none |-> TRUE]

\* The messages of validate_and_process, kept as their kind and the text formatted in.
MsgNoValidData == [kind |-> "No valid data found in any worksheet", detail |-> ""]
MsgFailedToRead == [kind |-> "Failed to read Excel file", detail |-> ""]
MsgSecurityFailed(message) == [kind |-> "Security check failed", detail |-> message]
MsgUnexpected == [kind |-> "Unexpected error", detail |-> ""]
MsgProcessed == [kind |-> "File processed successfully", detail |-> ""]
MsgOfValidation(message) == [kind |-> "validation", detail |-> message]

\* return {'success': False, 'message': ..., 'data': None, 'processed_data': None}
Failure(message) ==
    [success |-> FALSE, message |-> message, data |-> None, processed_data |-> None]

\* df.empty: no rows or no columns.
Empty(df) == Len(df) = 0 \/ NumRows(df) = 0

\* _process_data(df): the description of the table kept for the chatbot.
_process_data(df) ==
    [columns |-> [c \in DOMAIN df |-> df[c].name],
     shape |-> <<NumRows(df), Len(df)>>,
     missing_values |-> [c \in DOMAIN df |-> NullsIn(df[c])],
     numeric_columns |-> NumericColumns(df),
     categorical_columns |-> CategoricalColumns(df)]

\* if not security_check['safe']
ScanRejects(security_check) == ~security_check.safe

\* Steps 4 and 5 of validate_and_process on the table loaded.
ProcessAndScan(uploaded_file, main_df) ==
    IF uploaded_file.process_raises
    THEN Failure(MsgUnexpected)
    ELSE LET processed_data == _process_data(main_df)
             security_check == _security_scan(main_df, uploaded_file.raising)
         IN  IF ScanRejects(security_check)
             THEN Failure(MsgSecurityFailed(security_check.message))
             ELSE [success |-> TRUE, message |-> MsgProcessed,
                   data |-> [df |-> main_df], processed_data |-> processed_data]

\* Step 3: the workbook is opened and a sheet loaded. A workbook of several sheets gives
\* its first sheet that reads and is not empty; a workbook of one sheet gives that sheet.
LoadAndScan(uploaded_file) ==
    LET workbook == uploaded_file.workbook
        Usable(sheet) == sheet.reads /\ ~Empty(sheet.df)
        sheet_data == SelectSeq(workbook.sheets, Usable)
    IN  IF ~workbook.loads
        THEN Failure(MsgFailedToRead)
        ELSE IF Len(workbook.sheets) > 1
        THEN IF sheet_data = <<>>
             THEN Failure(MsgNoValidData)
             ELSE ProcessAndScan(uploaded_file, sheet_data[1].df)
        ELSE IF ~workbook.sheets[1].reads
        THEN Failure(MsgFailedToRead)
        ELSE ProcessAndScan(uploaded_file, workbook.sheets[1].df)

\* validate_and_process(uploaded_file)
validate_and_process(uploaded_file) ==
    LET validation_result_ == _validate_file(uploaded_file)
    IN  IF ~validation_result_.valid
        THEN Failure(MsgOfValidation(validation_result_.message))
        ELSE IF ~uploaded_file.reads
        THEN Failure(MsgUnexpected)
        ELSE LoadAndScan(uploaded_file)

\* Sheets: one that cannot be read, and readable ones with a table.
Sheet(df) == [reads |-> TRUE, df |-> df]
BrokenSheet == [reads |-> FALSE, df |-> <<>>]

\* A sheet of a header and no rows.
HeaderOnlyTable == <<[name |-> "name", dtype |-> "object", cells |-> <<>>]>>

SheetPool == {Sheet(SafeTable), Sheet(ScenarioTable), Sheet(<<>>), Sheet(HeaderOnlyTable), BrokenSheet}

MaxSheets == 2

\* The workbooks: one that does not open, and those of 1..MaxSheets sheets.
Workbooks ==
    {[loads |-> FALSE, sheets |-> <<BrokenSheet>>]}
    \cup {[loads |-> TRUE, sheets |-> sheets] :
             sheets \in UNION {[1..n -> SheetPool] : n \in 1..MaxSheets}}

PlainName == <<"a", ".", "x", "l", "s", "x">>
TraversalName == <<".", ".", "a", ".", "x", "l", "s", "x">>

\* The metadata of the files: one that passes _validate_file and three that do not.
FileProperties ==
    {[name |-> PlainName, size |-> 1, type |-> XlsxMime],
     [name |-> TraversalName, size |-> 1, type |-> XlsxMime],
     [name |-> PlainName, size |-> 1, type |-> "text/csv"],
     [name |-> PlainName, size |-> MAX_FILE_SIZE + 1, type |-> XlsxMime]}

\* The statements that raise on a file: none, _process_data, or the pattern search of
\* _security_scan.
Faults ==
    {[process_raises |-> FALSE, raising |-> NoRaise],
     [process_raises |-> TRUE, raising |-> NoRaise],
     [process_raises |-> FALSE, raising |-> [column |-> 1, at |-> {"patterns"}]]}

UploadedFile(p, reads, workbook, fault) ==
    [name |-> p.name, size |-> p.size, type |-> p.type, reads |-> reads,
     workbook |-> workbook, process_raises |-> fault.process_raises,
     raising |-> fault.raising]

PlainFile == [name |-> PlainName, size |-> 1, type |-> XlsxMime]
NoFault == [process_raises |-> FALSE, raising |-> NoRaise]
SafeWorkbook == [loads |-> TRUE, sheets |-> <<Sheet(SafeTable)>>]

\* The files given to the uploader. What follows a failed step is never looked at, so
\* the files that fail _validate_file or read() carry one workbook each.
UploadedFiles ==
    {UploadedFile(p, TRUE, SafeWorkbook, NoFault) : p \in FileProperties}
    \cup {UploadedFile(PlainFile, FALSE, SafeWorkbook, NoFault)}
    \cup {UploadedFile(PlainFile, TRUE, workbook, fault) :
              workbook \in Workbooks, fault \in Faults}

\* if uploaded_file: validation_result = file_handler.validate_and_process(uploaded_file);
\* on success the session takes data and processed_data, otherwise data is set to None.
UploadFile ==
    \E uploaded_file \in UploadedFiles :
        LET result == validate_and_process(uploaded_file)
        IN  /\ uploaded' = uploaded_file
            /\ process_result' = result
            /\ session_state' =
                  IF result.success
                  THEN [data |-> result.data, processed_data |-> result.processed_data]
                  ELSE [session_state EXCEPT !.data = None]
            /\ UNCHANGED <<rateVars, fileVars, scanVars, contentVars, sanitizeVars,
                           profileVars, cleanVars, windowVars>>

\* if st.button("Clear All Data"): data and processed_data are set to None.
ClearAllData ==
    /\ session_state' = [data |-> None, processed_data |-> None]
    /\ UNCHANGED <<uploaded, process_result, rateVars, fileVars, scanVars, contentVars,
                   sanitizeVars, profileVars, cleanVars, windowVars>>

NoUploadedFile == [none |-> TRUE]
NoProcessResult == [none |-> TRUE]

\* if 'data' not in st.session_state: st.session_state.data = None; likewise
\* processed_data.
NoSession == [data |-> None, processed_data |-> None]

(***************************************************************************)
(* Specifications                                                          *)
(***************************************************************************)

RateInit ==
    /\ now = 0
    /\ api_call_tracker = [x \in {} |-> 0]
    /\ heap = <<>>
    /\ hist = [u \in Users |-> NoHist]
    /\ pc = [t \in Threads |-> "idle"]
    /\ frame = [t \in Threads |-> NoFrame]

FileIdle == upload = NoUpload /\ verdict = NoVerdict

SessionIdle ==
    /\ uploaded = NoUploadedFile
    /\ process_result = NoProcessResult
    /\ session_state = NoSession

WindowIdle == admissions = EmptyDict

CleanIdle ==
    /\ cleaning_options = OptionsNone /\ frames = <<>> /\ cleaned_df = NoFrameRef
    /\ SessionIdle /\ WindowIdle

ProfileIdle == quality_metrics = NoReport /\ profiles = NoProfiles /\ CleanIdle

SanitizeIdle == input_text = NoInput /\ sanitized = NotSanitized /\ ProfileIdle

ContentIdle == raises = NoRaise /\ validation_result = NoValidation /\ SanitizeIdle

ScanIdle == table = NoTable /\ scan = NoScan /\ ContentIdle

Init == RateInit /\ FileIdle /\ ScanIdle

\* An upload has arrived and is not judged yet.
InitFile == RateInit /\ upload \in Uploads /\ verdict = NoVerdict /\ ScanIdle

Next ==
    \/ \E u \in Users : ValidateApiUsage(u)
    \/ Tick

\* Sequential use of the rate limiter.
Spec == Init /\ [][Next]_vars

NextConc ==
    \/ \E t \in Threads, u \in ConcUsers : Enter(t, u)
    \/ \E t \in Threads : CheckKnown(t)
    \/ \E t \in Threads : Create(t)
    \/ \E t \in Threads : Bind(t)
    \/ \E t \in Threads : Prune(t)
    \/ \E t \in Threads : ReadCount(t)
    \/ \E t \in Threads : Finish(t)
    \/ TickConc

\* Concurrent use of the rate limiter.
SpecConc == Init /\ [][NextConc]_vars

NextFile == ValidateFile

\* Uploads judged by _validate_file.
SpecFile == InitFile /\ [][NextFile]_vars

\* A table has been parsed and is not scanned yet.
InitScan == RateInit /\ FileIdle /\ table \in Tables /\ scan = NoScan /\ ContentIdle

NextScan == SecurityScan

\* Parsed tables scanned by _security_scan.
SpecScan == InitScan /\ [][NextScan]_vars

\* A table is to be scanned, and statements of the scans may raise on one column.
InitContent ==
    /\ RateInit /\ FileIdle
    /\ table \in ContentTables
    /\ raises \in RaisesOf(table)
    /\ scan = NoScan
    /\ validation_result = NoValidation
    /\ SanitizeIdle

NextContent ==
    \/ SecurityScan
    \/ ValidateDataContent

\* Tables scanned by both scans, _security_scan and validate_data_content.
SpecContent == InitContent /\ [][NextContent]_vars

\* A text is to be sanitized.
InitSanitize ==
    /\ RateInit /\ FileIdle
    /\ table = NoTable /\ scan = NoScan
    /\ raises = NoRaise /\ validation_result = NoValidation
    /\ input_text \in InputTexts
    /\ sanitized = NotSanitized
    /\ ProfileIdle

NextSanitize == SanitizeInput

\* Texts sanitized by sanitize_input.
SpecSanitize == InitSanitize /\ [][NextSanitize]_vars

\* A table is to be profiled.
InitProfile ==
    /\ RateInit /\ FileIdle
    /\ table \in ProfileTables
    /\ scan = NoScan
    /\ ContentIdle

NextProfile ==
    \/ GenerateQualityReport
    \/ GenerateColumnProfiles

\* Tables profiled by generate_quality_report and generate_column_profiles.
SpecProfile == InitProfile /\ [][NextProfile]_vars

\* A table is to be cleaned with some switches.
InitClean ==
    /\ RateInit /\ FileIdle
    /\ table \in CleanTables
    /\ scan = NoScan
    /\ raises = NoRaise /\ validation_result = NoValidation
    /\ input_text = NoInput /\ sanitized = NotSanitized
    /\ quality_metrics = NoReport /\ profiles = NoProfiles
    /\ cleaning_options \in CleaningOptions
    /\ frames = <<table>>
    /\ cleaned_df = NoFrameRef
    /\ SessionIdle /\ WindowIdle

NextClean == CleanData

\* Tables cleaned by clean_data.
SpecClean == InitClean /\ [][NextClean]_vars

NextSession ==
    \/ UploadFile
    \/ ClearAllData

\* A session of uploads and clicks on 'Clear All Data'.
SpecSession == Init /\ [][NextSession]_vars

NextWindow ==
    \/ TimedApiUsage
    \/ Tick

\* One identity calling one call after another, the instants of its admissions noted.
SpecWindow == Init /\ [][NextWindow]_vars

(***************************************************************************)
(* Properties                                                              *)
(***************************************************************************)

\* C1: an identity that had no recorded calls, calling while the clock stays in one
\* minute bucket, is admitted on exactly its first MAX_API_CALLS_PER_MINUTE (10) calls:
\* after k calls in that bucket min(k, 10) were admitted, and the latest call was
\* admitted if and only if k <= 10.
C1_FreshIdentityQuota ==
    \A u \in Users :
        hist[u].epoch = 1 =>
            /\ hist[u].admits = Min(hist[u].calls, 10)
            /\ hist[u].result.allowed <=> hist[u].calls <= 10

\* C1, its case: a fresh identity made 12 calls in its first bucket; 10 were admitted
\* and the latest was denied.
C1_Witness ==
    \E u \in Users :
        /\ hist[u].epoch = 1
        /\ hist[u].calls = 12
        /\ hist[u].admits = 10
        /\ ~hist[u].result.allowed

\* C2: in a bucket later than one the identity called in, the k-th call reads the count
\* k - 1 whatever the earlier bucket holds, so the first 10 calls are admitted, and the
\* first of them reports remaining_calls = 9.
C2_LaterBucketFullQuota ==
    \A u \in Users :
        hist[u].epoch = 2 =>
            /\ hist[u].admits = Min(hist[u].calls, 10)
            /\ hist[u].read = Min(hist[u].calls - 1, 10)
            /\ hist[u].calls = 1 =>
                  hist[u].result.allowed /\ hist[u].result.remaining_calls = 9

\* C2, its case: the identity used up the previous minute's quota, and all of its 10
\* calls in the current bucket were admitted.
C2_Witness ==
    \E u \in Users :
        /\ hist[u].epoch = 2
        /\ hist[u].calls = 10
        /\ hist[u].admits = 10
        /\ hist[u].result.remaining_calls = 0
        /\ LET user_tracker == heap[api_call_tracker[u]]
           IN  /\ hist[u].minute - 1 \in DOMAIN user_tracker
               /\ user_tracker[hist[u].minute - 1] = 10

\* C3: with concurrent calls for one identity, the number of calls admitted within one
\* minute bucket never exceeds MAX_API_CALLS_PER_MINUTE (10).
C3_NoOverAdmission ==
    \A u \in Users : hist[u].admits <= 10

Judged == verdict # NoVerdict

\* C4: an upload whose filename contains '..', '/' or a backslash is never valid.
C4_TraversalNamesRejected ==
    (/\ Judged
     /\ \/ Contains(upload.name, <<".", ".">>)
        \/ Contains(upload.name, <<"/">>)
        \/ Contains(upload.name, <<"\\">>))
        => ~verdict.valid

\* A name of letters, digits and '_' followed by '.xlsx'.
PlainXlsxName(name) ==
    /\ Len(name) > 5
    /\ SubSeq(name, Len(name) - 4, Len(name)) = <<".", "x", "l", "s", "x">>
    /\ \A i \in 1..(Len(name) - 5) : name[i] \in Letters \cup Digits \cup {"_"}

\* C5: an upload of more than 52,428,800 bytes is invalid with the size message,
\* whatever its name and type; one of exactly 52,428,800 bytes with a plain .xlsx name
\* and the xlsx content type is valid.
C5_SizeLimit ==
    Judged =>
        /\ upload.size > 52428800 => ~verdict.valid /\ verdict.message = MsgSize
        /\ (upload.size = 52428800 /\ upload.type = XlsxMime /\ PlainXlsxName(upload.name))
              => verdict.valid

\* C5, its case: an upload of exactly the maximum size was judged valid.
C5_Witness ==
    /\ Judged
    /\ upload.size = 52428800
    /\ verdict.valid

\* C6: an upload with 0 < size <= max, an allowed content type and a name ending in
\* '.xlsx' made only of letters, digits, '.', '_', '-', space and parentheses, without
\* '..', is valid.
C6_AllowListNamesValid ==
    (/\ Judged
     /\ 0 < upload.size /\ upload.size <= 52428800
     /\ upload.type = XlsxMime
     /\ Len(upload.name) >= 5
     /\ SubSeq(upload.name, Len(upload.name) - 4, Len(upload.name))
           = <<".", "x", "l", "s", "x">>
     /\ \A i \in DOMAIN upload.name :
           upload.name[i] \in Letters \cup Digits \cup {".", "_", "-", " ", "(", ")"}
     /\ ~Contains(upload.name, <<".", ".">>))
        => verdict.valid

\* Does the name end in '.xlsx', in any letter case.
CarriesXlsxExtension(name) ==
    /\ Len(name) >= 5
    /\ Lower(SubSeq(name, Len(name) - 4, Len(name))) = <<".", "x", "l", "s", "x">>

\* C7: an upload whose filename does not carry the extension '.xlsx' (in any letter
\* case) is never valid, a name without any '.' included.
C7_NoXlsxExtensionRejected ==
    Judged => (~CarriesXlsxExtension(upload.name) => ~verdict.valid)

\* C8: the verdict carries the message of the first failing rule, in the order
\* size > max, extension, content type, filename safety, size = 0.
C8_RuleOrder ==
    Judged =>
        LET oversize == upload.size > 52428800
            badExtension == FileExtension(upload.name) \notin ALLOWED_EXTENSIONS
            badType == upload.type \notin ALLOWED_MIME_TYPES
            badName == ~_is_safe_filename(upload.name)
            empty == upload.size = 0
        IN  verdict =
              IF oversize THEN [valid |-> FALSE, message |-> MsgSize]
              ELSE IF badExtension THEN [valid |-> FALSE, message |-> MsgExtension]
              ELSE IF badType THEN [valid |-> FALSE, message |-> MsgMime]
              ELSE IF badName THEN [valid |-> FALSE, message |-> MsgFilename]
              ELSE IF empty THEN [valid |-> FALSE, message |-> MsgEmpty]
              ELSE [valid |-> TRUE, message |-> MsgOk]

\* C8, its case: a zero-byte upload with a wrong extension got the extension message.
C8_Witness ==
    /\ Judged
    /\ upload.size = 0
    /\ FileExtension(upload.name) = <<".", "c", "s", "v">>
    /\ verdict.message = MsgExtension

Scanned == scan # NoScan

\* Has the table a non-null cell of a text column in which a signature of the
\* injection catalogue matches.
HasInjection(df) ==
    \E c \in DOMAIN df :
        /\ df[c].dtype = "object"
        /\ \E i \in DOMAIN df[c].cells :
              ~df[c].cells[i].isnull /\ CatalogueHits[df[c].cells[i].str] # {}

\* C9: the strict scan returns safe = False for every table with a text cell matching
\* a signature of the injection catalogue, and names column comment for the scenario
\* table.
C9_InjectionRejected ==
    Scanned =>
        /\ HasInjection(table) => ~scan.safe
        /\ table = ScenarioTable => ~scan.safe /\ scan.column = "comment"

\* Are all non-null text cells of the table made of letters and digits only, and at
\* most 10,000 characters long.
AlphanumericOnly(df) ==
    \A c \in DOMAIN df :
        df[c].dtype = "object" =>
            \A i \in DOMAIN df[c].cells :
                \/ df[c].cells[i].isnull
                \/ /\ Len(df[c].cells[i].str) <= 10000
                   /\ \A j \in DOMAIN df[c].cells[i].str :
                         df[c].cells[i].str[j] \in Letters \cup Digits

\* C10: the strict scan returns safe = True for every table whose text cells consist
\* only of letters and digits.
C10_AlphanumericSafe ==
    (Scanned /\ AlphanumericOnly(table)) => scan.safe

ScannedBoth == scan # NoScan /\ validation_result # NoValidation

\* C11: when the pattern scan of a text column raises, both scans return safe = False
\* for the table: _security_scan, and validate_data_content, whose helper
\* _scan_column_for_threats catches the exception itself.
C11_RaisingScanFailsClosed ==
    (ScannedBoth /\ "patterns" \in raises.at) =>
        /\ ~scan.safe
        /\ ~validation_result.safe

Validated == validation_result # NoValidation

\* Has the table at most MAX_ROWS rows and at most MAX_COLUMNS columns.
WithinLimits(df) == NumRows(df) <= 1000000 /\ Len(df) <= 1000

\* Has the column a non-null cell in which a pattern of the catalogue matches.
ColumnHasMatch(col) ==
    \E i \in DOMAIN col.cells :
        /\ ~col.cells[i].isnull
        /\ \E k \in DOMAIN suspicious_patterns : k \in CatalogueHits[col.cells[i].str]

\* Does the list name exactly the text columns of df that have a match, each once, in
\* the order of the table's columns.
ListsMatchingColumns(listed, df) ==
    LET Position(name) == CHOOSE c \in DOMAIN df : df[c].name = name
    IN  /\ \A c \in DOMAIN df :
              (df[c].dtype = "object" /\ ColumnHasMatch(df[c]))
                  <=> \E i \in DOMAIN listed : listed[i] = df[c].name
        /\ \A i, j \in DOMAIN listed : i < j => Position(listed[i]) < Position(listed[j])

C13_FindingsAreWarningsOnly ==
    (Validated /\ WithinLimits(table) /\ raises = NoRaise) =>
        /\ validation_result.safe
        /\ validation_result.errors = <<>>

\* C13, its case: a table holding a script tag, a cell of 10,001 characters and an email
\* address was scanned; the result is safe with one warning for each.
C13_Witness ==
    /\ Validated
    /\ table = FindingsTable
    /\ raises = NoRaise
    /\ validation_result.safe
    /\ validation_result.suspicious_columns = <<"comment">>
    /\ Len(validation_result.warnings) = 3

ColumnsNamedBy(result) == IF result.column = "" THEN {} ELSE {result.column}

\* Is the table free of catalogue and scan-list patterns and of oversized cells, so
\* that PII is all a scan can find in it.
PiiAlone(df) ==
    \A c \in DOMAIN df :
        df[c].dtype = "object" =>
            \A i \in DOMAIN df[c].cells :
                \/ df[c].cells[i].isnull
                \/ /\ CatalogueHits[df[c].cells[i].str] = {}
                   /\ ScanHits[df[c].cells[i].str] = {}
                   /\ Len(df[c].cells[i].str) <= 10000

\* C15: in both scans, _security_scan and validate_data_content, a text column holding
\* an email-, phone-, SSN- or credit-card-shaped cell produces an advisory warning that
\* names the column, and when PII is all the table holds the verdict stays safe = True.
C15_PiiAdvisoryInBothScans ==
    (ScannedBoth /\ raises = NoRaise) =>
        /\ \A c \in DOMAIN table, k \in DOMAIN pii_patterns :
              (table[c].dtype = "object" /\ HasPii(table[c], k)) =>
                  /\ \E w \in DOMAIN validation_result.warnings :
                        validation_result.warnings[w] =
                            PiiWarning(table[c].name, pii_patterns[k].pii_type)
                  /\ table[c].name \in ColumnsNamedBy(scan)
        /\ (WithinLimits(table) /\ PiiAlone(table)) => scan.safe /\ validation_result.safe

\* C16: for every input, the string sanitize_input returns does not contain '<script>'
\* in any letter case; '<script>alert(1)' and '<scr<script>x</script>ipt>alert(1)' are
\* among the inputs.
C16_NoScriptTagLeft ==
    sanitized.done => ~Contains(Lower(sanitized.text), <<"<", "s", "c", "r", "i", "p", "t", ">">>)

Reported == quality_metrics # NoReport

\* Has the table no null cell.
NoNullCell(df) == \A c \in DOMAIN df : \A i \in DOMAIN df[c].cells : ~df[c].cells[i].isnull

\* C17: for every table, those of no rows or no columns included, generate_quality_report
\* returns a missing_data_percentage that denotes a number in [0, 100], and it reads
\* '0.00%' if and only if the table has no null cell.
C17_MissingPercentageInRange ==
    Reported =>
        /\ ~quality_metrics.raised
        /\ quality_metrics.missing_data_percentage.kind = "number"
        /\ quality_metrics.missing_data_percentage.hundredths \in 0..(100 * 100)
        /\ quality_metrics.missing_data_percentage.hundredths = 0 <=> NoNullCell(table)

Profiled == profiles # NoProfiles

\* The non-null values of the column in ascending order.
Ascending(col) ==
    LET present == {i \in DOMAIN col.cells : ~col.cells[i].isnull}
        Value(i) == col.cells[i].value
        Occurrences(v) == Cardinality({i \in present : Value(i) = v})
    IN  CHOOSE s \in [1..Cardinality(present) -> {Value(i) : i \in present}] :
            /\ \A i, j \in DOMAIN s : i < j => s[i] <= s[j]
            /\ \A v \in {Value(i) : i \in present} :
                  Cardinality({i \in DOMAIN s : s[i] = v}) = Occurrences(v)

\* Four times the linearly interpolated percentile at quarters / 4 of the ascending
\* values s: at position 1 + (n - 1) * quarters / 4, between the two values next to it.
Percentile(s, quarters) ==
    LET whole == ((Len(s) - 1) * quarters) \div 4
        part == ((Len(s) - 1) * quarters) % 4
    IN  IF part = 0 THEN 4 * s[whole + 1]
        ELSE (4 - part) * s[whole + 1] + part * s[whole + 2]

\* The non-null values of the column strictly below Q1 - 1.5 * IQR or strictly above
\* Q3 + 1.5 * IQR, by their positions; the comparison is made on 8 times each side.
Outside(col) ==
    LET s == Ascending(col)
        q1 == Percentile(s, 1)
        q3 == Percentile(s, 3)
    IN  {i \in DOMAIN col.cells :
            /\ ~col.cells[i].isnull
            /\ \/ 8 * col.cells[i].value < 2 * q1 - 3 * (q3 - q1)
               \/ 8 * col.cells[i].value > 2 * q3 + 3 * (q3 - q1)}

NumericPositions(df) == {c \in DOMAIN df : df[c].dtype \in {"int64", "float64"}}

\* C18: for a numeric column, outlier_count of generate_column_profiles and the column's
\* contribution to potential_outliers of generate_quality_report equal the number of
\* non-null values strictly below Q1 - 1.5 * IQR or strictly above Q3 + 1.5 * IQR, Q1 and
\* Q3 being the linearly interpolated 25th and 75th percentiles of the non-null values;
\* for 10, 12, 11, 13, 12, 100 the count is 1 and the value outside is 100.
C18_OutlierCountIsTukeyFence ==
    /\ (Reported /\ ~quality_metrics.raised) =>
          quality_metrics.potential_outliers =
              SumSeq([c \in DOMAIN table |->
                         IF c \in NumericPositions(table)
                         THEN Cardinality(Outside(table[c])) ELSE 0])
    /\ (Profiled /\ ~profiles.raised) =>
          \A c \in NumericPositions(table) :
              profiles.columns[c].outlier_count = Cardinality(Outside(table[c]))
    /\ (Reported /\ Profiled /\ table = <<AgeColumn>>) =>
          /\ quality_metrics.potential_outliers = 1
          /\ profiles.columns[1].outlier_count = 1
          /\ {AgeColumn.cells[i].value : i \in Outside(AgeColumn)} = {100}

\* C18, its case: the column 10, 12, 11, 13, 12, 100 was reported and profiled, with one
\* outlier in both.
C18_Witness ==
    /\ Reported /\ Profiled
    /\ table = <<AgeColumn>>
    /\ quality_metrics.potential_outliers = 1
    /\ profiles.columns[1].outlier_count = 1

\* Are the non-null values of the column all equal (a column without values included).
AllEqual(col) ==
    \A i, j \in DOMAIN col.cells :
        (~col.cells[i].isnull /\ ~col.cells[j].isnull) =>
            col.cells[i].value = col.cells[j].value

Cleaned == cleaned_df # NoFrameRef

\* C20: after clean_data returned, for every table and every combination of the switches
\* (or cleaning_options None), the caller's table has the rows, the cells (nulls
\* included) and the row order it had before the call.
C20_CleanDataLeavesInputAlone ==
    Cleaned => frames[InputFrame] = table

\* C20, its case: with the three acting switches on, a table with a repeated row and
\* nulls in both columns came back without the repeated row and without nulls, and the
\* caller's table still has them.
C20_Witness ==
    /\ Cleaned
    /\ cleaning_options.remove_duplicates
    /\ cleaning_options.fill_numeric_missing
    /\ cleaning_options.fill_categorical_missing
    /\ NumRows(table) = 3
    /\ Row(table, 1) = Row(table, 2)
    /\ AnyNull(table[1]) /\ AnyNull(table[2])
    /\ NumRows(frames[cleaned_df]) = 2
    /\ ~AnyNull(frames[cleaned_df][1]) /\ ~AnyNull(frames[cleaned_df][2])
    /\ frames[InputFrame] = table

\* The dict of an identity that has called.
TrackerOf(u) == heap[api_call_tracker[u]]

\* C22: after a call of an identity made at minute m (the clock never running backwards,
\* one call at a time), the identity's tracker holds no bucket older than m - 1: its
\* keys are among m - 1 and m, at most two.
C22_TrackerKeepsTwoBuckets ==
    \A u \in DOMAIN api_call_tracker :
        hist[u].epoch > 0 =>
            /\ \A minute \in DOMAIN TrackerOf(u) : minute >= hist[u].minute - 1
            /\ DOMAIN TrackerOf(u) \subseteq {hist[u].minute - 1, hist[u].minute}
            /\ Cardinality(DOMAIN TrackerOf(u)) <= 2

\* C22, its case: an identity called in minute 0 and then in minute 2; the bucket of
\* minute 0 was pruned by the later call and the bucket of minute 2 is the only one.
C22_Witness ==
    \E u \in DOMAIN api_call_tracker :
        /\ hist[u].minute = 2
        /\ hist[u].epoch = 2
        /\ MinuteOf(now) = 2
        /\ hist[u].calls = 1
        /\ DOMAIN TrackerOf(u) = {2}

\* The call that has just returned for u (in a step of validate_api_usage made at the
\* instant now) is a denial with retry_after = 60 - (now mod 60), or an admission with
\* remaining_calls = 10 - new_count, new_count being the count it stored.
ResultWellFormed(u) ==
    LET result == hist'[u].result
        count_read == hist'[u].read
        new_count == TrackerOf(u)'[MinuteOf(now)]
    IN  /\ ~result.allowed <=> count_read >= 10
        /\ ~result.allowed =>
              /\ result.retry_after = 60 - (now % 60)
              /\ result.retry_after \in 1..60
        /\ result.allowed =>
              /\ new_count = count_read + 1
              /\ result.remaining_calls = 10 - new_count
              /\ result.remaining_calls \in 0..9
              /\ result.remaining_calls = 10 - hist'[u].admits

\* C23: every result of validate_api_usage is a denial carrying retry_after =
\* 60 - (now mod 60), in (0, 60], or an admission carrying remaining_calls = MAX -
\* new_count, in [0, MAX - 1]; the k-th admission of an identity in a bucket carries
\* MAX - k, and the call is denied exactly when the count it read is at least MAX.
C23_ResultsWellFormed ==
    [][\A u \in Users : hist'[u] # hist[u] => ResultWellFormed(u)]_vars

\* C23, its case: one identity was admitted for the 10th time in its bucket with
\* remaining_calls = 0, and another was denied at second 59 of a minute with
\* retry_after = 1.
C23_Witness ==
    \E u, v \in Users :
        /\ hist[u].admits = 10 /\ hist[u].calls = 10
        /\ hist[u].result.allowed /\ hist[u].result.remaining_calls = 0
        /\ ~hist[v].result.allowed /\ hist[v].epoch > 0
        /\ hist[v].result.retry_after = 1

\* The call that has just returned for u was denied and left every count as it was: the
\* dicts of the other identities are untouched, and the dict of u lost at most buckets
\* older than the previous minute.
DenialChangesNoCount(u) ==
    ~hist'[u].result.allowed =>
        /\ \A v \in DOMAIN api_call_tracker \ {u} :
              api_call_tracker'[v] = api_call_tracker[v] /\ TrackerOf(v)' = TrackerOf(v)
        /\ DOMAIN api_call_tracker' = DOMAIN api_call_tracker
        /\ u \in DOMAIN api_call_tracker
        /\ DOMAIN TrackerOf(u)' \subseteq DOMAIN TrackerOf(u)
        /\ \A minute \in DOMAIN TrackerOf(u) :
              IF minute \in DOMAIN TrackerOf(u)'
              THEN TrackerOf(u)'[minute] = TrackerOf(u)[minute]
              ELSE minute < MinuteOf(now) - 1

\* C25: with calls made one after another, a denied call changes no counter (it may
\* only prune buckets older than the previous minute), no bucket count ever exceeds
\* MAX_API_CALLS_PER_MINUTE (10), and the first call of an identity in a later bucket is
\* admitted however many calls were denied before it.
C25_DenialLeavesCounters ==
    [][\A u \in Users :
          hist'[u] # hist[u] =>
              /\ DenialChangesNoCount(u)
              /\ \A v \in DOMAIN api_call_tracker' :
                    \A minute \in DOMAIN TrackerOf(v)' : TrackerOf(v)'[minute] <= 10
              /\ hist'[u].minute # hist[u].minute => hist'[u].result.allowed]_vars

\* C25, its case: an identity was denied twice in minute 0 (12 calls, 10 admitted, the
\* count still 10) and its first call in minute 1 was admitted.
C25_Witness ==
    \E u \in DOMAIN api_call_tracker :
        /\ hist[u].minute = 1 /\ hist[u].calls = 1 /\ hist[u].result.allowed
        /\ DOMAIN TrackerOf(u) = {0, 1}
        /\ TrackerOf(u)[0] = 10
        /\ \E v \in DOMAIN api_call_tracker :
              /\ hist[v].minute = 0 /\ hist[v].calls = 12 /\ hist[v].admits = 10
              /\ TrackerOf(v)[0] = 10

\* The call that has just returned for u left the state of every other identity alone:
\* no dict was created for, taken from or changed under another identity.
OthersUntouched(u) ==
    \A v \in Users \ {u} :
        /\ v \in DOMAIN api_call_tracker' <=> v \in DOMAIN api_call_tracker
        /\ v \in DOMAIN api_call_tracker =>
              /\ api_call_tracker'[v] = api_call_tracker[v]
              /\ api_call_tracker'[v] # api_call_tracker'[u]
              /\ TrackerOf(v)' = TrackerOf(v)

\* C26: with calls made one after another, a call for one identity never creates,
\* changes or prunes a bucket of another, and whether a call is admitted depends on the
\* caller's own calls in the bucket only: the k-th call of an identity in a bucket is
\* admitted exactly when k <= 10, whatever the other identity did in between.
C26_IdentitiesIsolated ==
    [][\A u \in Users :
          hist'[u] # hist[u] =>
              /\ OthersUntouched(u)
              /\ hist'[u].result.allowed <=> hist'[u].calls <= 10]_vars

\* C26, its case: one identity was denied on its 11th call of minute 0 while the other,
\* calling in the same minute, has made 3 calls, all admitted, and holds the count 3.
C26_Witness ==
    \E u, v \in DOMAIN api_call_tracker :
        /\ u # v
        /\ hist[u].minute = 0 /\ hist[u].calls = 11 /\ ~hist[u].result.allowed
        /\ hist[v].minute = 0 /\ hist[v].calls = 3 /\ hist[v].admits = 3
        /\ TrackerOf(u)[0] = 10
        /\ TrackerOf(v)[0] = 3

\* The sum of the counts of a dict.
RECURSIVE SumOfCounts(_)
SumOfCounts(counts) ==
    IF DOMAIN counts = {} THEN 0
    ELSE LET key == CHOOSE k \in DOMAIN counts : TRUE
         IN  counts[key] + SumOfCounts([k \in (DOMAIN counts) \ {key} |-> counts[k]])

\* The calls of the identity admitted within the 60 seconds that end at its latest call.
AdmittedInWindow == SumOfCounts(admissions)

RemoveDuplicatesOnly ==
    LET options == EffectiveOptions(cleaning_options)
    IN  /\ options.remove_duplicates
        /\ ~options.fill_numeric_missing
        /\ ~options.fill_categorical_missing
        /\ ~options.remove_outliers

\* The positions of the rows of df that equal no row before them.
FirstOccurrences(df) ==
    {i \in 1..NumRows(df) : \A j \in 1..(i - 1) : Row(df, j) # Row(df, i)}

\* The k-th smallest of a set of positions.
NthOf(positions, k) ==
    CHOOSE i \in positions : Cardinality({j \in positions : j <= i}) = k

\* C21: clean_data with remove_duplicates alone returns the first occurrences of the
\* distinct rows of the input, in their input order and with their values, in the
\* columns of the input; the number of rows is the input's minus the duplicate_rows of
\* get_data_summary (one less for one exact-duplicate row).
C21_FirstOccurrencesKept ==
    (Cleaned /\ RemoveDuplicatesOnly) =>
        LET returned == frames[cleaned_df]
            first == FirstOccurrences(table)
        IN  /\ Len(returned) = Len(table)
            /\ \A c \in DOMAIN table :
                  /\ returned[c].name = table[c].name
                  /\ returned[c].dtype = table[c].dtype
            /\ NumRows(returned) = Cardinality(first)
            /\ \A k \in 1..NumRows(returned) :
                  Row(returned, k) = Row(table, NthOf(first, k))
            /\ NumRows(returned) =
                  get_data_summary(table).total_rows - get_data_summary(table).duplicate_rows
            /\ get_data_summary(table).duplicate_rows = 1 =>
                  NumRows(returned) = NumRows(table) - 1

\* C21, its case: a table of three rows whose third repeats the first and differs from
\* the second was cleaned with remove_duplicates alone; two rows came back, the first
\* and the second of the input.
C21_Witness ==
    /\ Cleaned /\ RemoveDuplicatesOnly
    /\ NumRows(table) = 3
    /\ Row(table, 3) = Row(table, 1)
    /\ Row(table, 2) # Row(table, 1)
    /\ get_data_summary(table).duplicate_rows = 1
    /\ NumRows(frames[cleaned_df]) = 2
    /\ Row(frames[cleaned_df], 1) = Row(table, 1)
    /\ Row(frames[cleaned_df], 2) = Row(table, 2)

\* No two rows of df are identical.
NoIdenticalRows(df) ==
    \A i, j \in 1..NumRows(df) : i # j => Row(df, i) # Row(df, j)

\* C30: whenever remove_duplicates is on, the table clean_data returns has no two
\* identical rows, whatever the two fill switches, and clean_data applied to it with the
\* same switches returns it again.
C30_NoDuplicatesAfterFilling ==
    (Cleaned /\ EffectiveOptions(cleaning_options).remove_duplicates) =>
        LET returned == frames[cleaned_df]
        IN  /\ NoIdenticalRows(returned)
            /\ \E copy_on_write \in BOOLEAN :
                  LET again == clean_data(<<returned>>, InputFrame, cleaning_options,
                                          copy_on_write)
                  IN  again.objects[again.ref] = returned

\* C28: in every result of validate_data_content, safe is False if and only if errors
\* is non-empty, the errors being the row-limit error, the column-limit error and
\* 'Validation error'; warnings and suspicious_columns have no part in safe.
C28_UnsafeIffErrors ==
    Validated =>
        /\ ~validation_result.safe <=> validation_result.errors # <<>>
        /\ \A i \in DOMAIN validation_result.errors :
              validation_result.errors[i].kind \in {"rows", "columns", "Validation error"}

\* C28, its case: the table of 1,001 columns came back unsafe with the column-limit error
\* and without warnings.
C28_Witness ==
    /\ Validated
    /\ table = WideTable
    /\ ~validation_result.safe
    /\ validation_result.errors = <<[kind |-> "columns", n |-> 1001]>>
    /\ validation_result.warnings = <<>>
    /\ validation_result.suspicious_columns = <<>>

\* validate_and_process has been called on the file in uploaded.
Processed == process_result # NoProcessResult

\* No sheet of the workbook gives a table with data: each sheet fails to read or is empty.
NoNonEmptySheet(workbook) ==
    \A i \in DOMAIN workbook.sheets :
        ~workbook.sheets[i].reads \/ Empty(workbook.sheets[i].df)

\* The outcomes in which the upload is to be refused before the scan: the file fails
\* _validate_file, the bytes or the workbook cannot be read, no sheet holds data, or
\* _process_data raises.
RefusedBeforeScan(uploaded_file) ==
    \/ ~_validate_file(uploaded_file).valid
    \/ ~uploaded_file.reads
    \/ ~uploaded_file.workbook.loads
    \/ NoNonEmptySheet(uploaded_file.workbook)
    \/ uploaded_file.process_raises

C29_DataAndProcessedDataTogether ==
    (session_state.data = None) <=> (session_state.processed_data = None)

====
